---- MODULE Spec2Model ----
(***************************************************************************)
(* Model of the website builder: route table construction and relative     *)
(* link resolution (src/src/website.rs) and the style registry             *)
(* (src/src/web/css.rs).                                                   *)
(*                                                                         *)
(* Strings are TLA+ strings; paths are built with \o and taken apart with  *)
(* Head/Tail/SubSeq, so joining and splitting are real conversions.        *)
(* Option<T> is a sequence of length 0 (None) or 1 (Some).                 *)
(***************************************************************************)
EXTENDS Naturals, Sequences, FiniteSets, TLC

VARIABLES
    website,        \* the Website handed to build: categories, posts, resources
    build_result,   \* outcome of Website::build: none / Ok / Err / Panic
    routes,         \* WebsiteRenderContext.routes (id -> segment list)
    current_page,   \* WebsiteRenderContext.current_page (Option)
    documents,      \* WebsiteBuilder.documents: the documents not yet yielded
    href_call,      \* the last resolve_href call and what it returned
    document_titles,\* WebsiteRenderContext.document_titles (id -> title)
    title_call,     \* the last resolve_link_title call and what it returned
    yielded,        \* the document main holds after next (Option)
    next_history,   \* history: what each call of next returned (Option of id)
    render_log,     \* history: the ids whose render closure was invoked, in order
    render_result,  \* none / Ok / Panic: how the last loop body of main ended
    imports,        \* CSSBuilder.imports (IndexSet, in insertion order)
    rules,          \* CSSBuilder.rules (IndexSet of generators, in insertion order)
    css_calls,      \* history: every import / register call made, in order
    invoked,        \* history: how often each generator has been called
    css_out,        \* the lines written to the sink by CSSBuilder::write
    css_result,     \* open / Ok / Panic: what CSSBuilder::write did
    html_node,      \* the node under construction: element, text or aggregate
    html_format,    \* the HtmlFormat the node was built with
    html_out,       \* the text written to html_out by Html::build
    html_result,    \* open / Ok / Panic: what the builder calls and build did
    inline_result   \* the answer of the last is_inline call (Option)

web_vars == <<website, build_result, routes, current_page, documents, href_call,
              document_titles, title_call, yielded, next_history, render_log,
              render_result>>
css_vars == <<imports, rules, css_calls, invoked, css_out, css_result>>
html_vars == <<html_node, html_format, html_out, html_result, inline_result>>
vars == <<website, build_result, routes, current_page, documents, href_call,
          document_titles, title_call, yielded, next_history, render_log,
          render_result,
          imports, rules, css_calls, invoked, css_out, css_result,
          html_node, html_format, html_out, html_result, inline_result>>

(***************************************************************************)
(* Bounds of the explored inputs.                                          *)
(***************************************************************************)
MaxPosts == 2       \* posts in the site
MaxResources == 1   \* resource files in the site
MaxCssCalls == 4    \* import / register calls before write
MaxExhaustedCalls == 2  \* calls of next after the documents ran out
MaxTextLen == 3     \* characters of a plain text
MaxIndent == 1      \* indent levels a node is built at
MaxMembers == 3     \* members of an aggregate
MaxBuilderCalls == 3    \* attributes and content of an element

None == <<>>
Some(x) == <<x>>

\* ------------------------------------------------------------ strings

RECURSIVE Join(_, _)
\* [String]::join(sep)
Join(segments, sep) ==
    IF Len(segments) = 0 THEN ""
    ELSE IF Len(segments) = 1 THEN segments[1]
    ELSE segments[1] \o sep \o Join(Tail(segments), sep)

RECURSIVE Repeat(_, _)
Repeat(s, n) == IF n = 0 THEN "" ELSE s \o Repeat(s, n - 1)

StartsWith(s, prefix) ==
    /\ Len(s) >= Len(prefix)
    /\ SubSeq(s, 1, Len(prefix)) = prefix

\* str::strip_prefix(prefix).unwrap_or(s)
StripPrefix(s, prefix) ==
    IF StartsWith(s, prefix) THEN SubSeq(s, Len(prefix) + 1, Len(s)) ELSE s

RECURSIVE SplitAcc(_, _, _)
SplitAcc(s, sep, current) ==
    IF Len(s) = 0 THEN <<current>>
    ELSE IF Head(s) = sep THEN <<current>> \o SplitAcc(Tail(s), sep, "")
    ELSE SplitAcc(Tail(s), sep, current \o Head(s))

\* the segments of a path string, split at every sep
Split(s, sep) == SplitAcc(s, sep, "")

Range(f) == {f[i] : i \in DOMAIN f}

\* ------------------------------------------------------------ categories

Category(id, unlisted, subs) ==
    [id_string |-> id, unlisted |-> unlisted, sub_categories |-> subs]

RECURSIVE iter_recurse(_)
RECURSIVE iter_recurse_all(_)
\* Category::iter_recurse: the category, then its descendants, in pre-order
iter_recurse(category) ==
    <<category>> \o iter_recurse_all(category.sub_categories)

\* categories.iter().flat_map(Category::iter_recurse)
iter_recurse_all(categories) ==
    IF Len(categories) = 0 THEN <<>>
    ELSE iter_recurse(Head(categories)) \o iter_recurse_all(Tail(categories))

RECURSIVE load_map(_, _, _)
RECURSIVE load_map_all(_, _, _)
\* Category::load_map: insert id -> path (a later insert of the same id
\* replaces the earlier one), then recurse into the sub-categories
load_map(category, category_map, path) ==
    LET own == Append(path, category.id_string)
        inserted == [k \in DOMAIN category_map \cup {category.id_string} |->
                        IF k = category.id_string THEN own ELSE category_map[k]]
    IN  load_map_all(category.sub_categories, inserted, own)

load_map_all(categories, category_map, path) ==
    IF Len(categories) = 0 THEN category_map
    ELSE load_map_all(Tail(categories),
                      load_map(Head(categories), category_map, path), path)

EmptyMap == [k \in {} |-> <<>>]

\* mutant: the loops stop one level higher
validate_panics_Level2(w) ==
    \E i \in DOMAIN w.categories :
      \E j \in DOMAIN w.categories[i].sub_categories :
        Len(w.categories[i].sub_categories[j].sub_categories) > 0

\* Website::validate: TRUE when it panics ("nests beyond level 3")
validate_panics(w) ==
    \E i \in DOMAIN w.categories :
      \E j \in DOMAIN w.categories[i].sub_categories :
        \E k \in DOMAIN w.categories[i].sub_categories[j].sub_categories :
          Len(w.categories[i].sub_categories[j].sub_categories[k].sub_categories) > 0

\* ------------------------------------------------------------ documents

FileName(policy, name) == [policy |-> policy, name |-> name]

\* every constructor (HtmlDocument::new, CSSDocument::new, ...) fills the
\* render slot: render: Some(Box::new(render))
Document(variant, id, filename, category, extension) ==
    [variant |-> variant, id |-> id, filename |-> filename,
     category |-> category, extension |-> extension, render |-> Some("closure")]

\* Document::title: only HTML documents have one
HasTitle(document) == document.variant = "HTML"

\* The title metadata of the explored sites: the home page is "Home", the
\* category or post with id i is titled "Title of i".
TitleOf(id) == IF id = "home" THEN "Home" ELSE "Title of " \o id

\* Document::title
Document_title(document) ==
    IF HasTitle(document) THEN Some(TitleOf(document.id)) ELSE None

DocumentOk(document) == [kind |-> "Ok", document |-> document, invoked |-> TRUE]
DocumentPanic(document) ==
    [kind |-> "Panic", document |-> document, invoked |-> FALSE]

\* mutant: the closure is called and the slot is left as it was
Document_build_Again(document) == DocumentOk(document)

\* Document::build: render.take().expect("double-render").call_once(..)
Document_build(document) ==
    IF Len(document.render) = 1
    THEN DocumentOk([document EXCEPT !.render = None])
    ELSE DocumentPanic(document)

\* the navigation of Website::documents, as the links its buttons resolve, in
\* the order they are rendered: home; then every top-level category, followed
\* by its listed sub-categories, each followed by all its sub-categories
NavigationLinks(w) ==
    LET OfHead(head) ==
            <<head.id_string>>
            \o [k \in DOMAIN head.sub_categories |-> head.sub_categories[k].id_string]
        RECURSIVE OfHeads(_)
        OfHeads(heads) ==
            IF Len(heads) = 0 THEN <<>>
            ELSE (IF Head(heads).unlisted THEN <<>> ELSE OfHead(Head(heads)))
                 \o OfHeads(Tail(heads))
        RECURSIVE OfCategories(_)
        OfCategories(categories) ==
            IF Len(categories) = 0 THEN <<>>
            ELSE <<Head(categories).id_string>>
                 \o OfHeads(Head(categories).sub_categories)
                 \o OfCategories(Tail(categories))
    IN  <<"home">> \o OfCategories(w.categories)

\* the keys of category_children: every category id of the tree
CategoryChildrenKeys(w) ==
    {c.id_string : c \in Range(iter_recurse_all(w.categories))}

ListedCategories(w) ==
    SelectSeq(iter_recurse_all(w.categories), LAMBDA c : ~c.unlisted)

\* category_children.get("blog").unwrap() fails for the first listed category
documents_panics(w) ==
    /\ Len(ListedCategories(w)) > 0
    /\ "blog" \notin CategoryChildrenKeys(w)

\* Website::documents: home, stylesheet, resources, listed categories, posts
Website_documents(w) ==
    <<Document("HTML", "home", FileName("Index", ""), None, ".html"),
      Document("Css", "stylesheet", FileName("ID", ""), None, ".css")>>
    \o [i \in DOMAIN w.resources |->
          Document("Resource", w.resources[i].id, FileName("Resource", ""),
                   None, w.resources[i].extension)]
    \o [i \in DOMAIN ListedCategories(w) |->
          Document("HTML", ListedCategories(w)[i].id_string, FileName("Index", ""),
                   Some(ListedCategories(w)[i].id_string), ".html")]
    \o [i \in DOMAIN w.posts |->
          Document("HTML", w.posts[i].id, FileName("ID", ""),
                   Some(w.posts[i].category), ".html")]

RECURSIVE InsertByDate(_, _)
InsertByDate(sorted, post) ==
    IF Len(sorted) = 0 THEN <<post>>
    ELSE IF Head(sorted).date >= post.date
         THEN <<Head(sorted)>> \o InsertByDate(Tail(sorted), post)
         ELSE <<post>> \o sorted

RECURSIVE SortPosts(_)
\* posts.sort_by(date, reversed): newest first, stable
SortPosts(posts) ==
    IF Len(posts) = 0 THEN <<>>
    ELSE InsertByDate(SortPosts(SubSeq(posts, 1, Len(posts) - 1)), posts[Len(posts)])

\* ------------------------------------------------------------ routes

\* mutant: the "resource:" prefix is kept in the file name
FileNameSegments_KeepPrefix(document) ==
    CASE document.filename.policy = "ID" ->
            <<document.id \o document.extension>>
      [] document.filename.policy = "Index" ->
            <<"index" \o document.extension>>
      [] document.filename.policy = "Resource" ->
            <<"rsc", document.id \o document.extension>>
      [] document.filename.policy = "Custom" ->
            <<document.filename.name \o document.extension>>

\* the segments a document's filename policy adds to its route
FileNameSegments(document) ==
    CASE document.filename.policy = "ID" ->
            <<document.id \o document.extension>>
      [] document.filename.policy = "Index" ->
            <<"index" \o document.extension>>
      [] document.filename.policy = "Resource" ->
            <<"rsc", StripPrefix(document.id, "resource:") \o document.extension>>
      [] document.filename.policy = "Custom" ->
            <<document.filename.name \o document.extension>>

BuildErr(error, id, route, pages) ==
    [kind |-> "Err", error |-> error, id |-> id, route |-> route,
     collided_pages |-> pages]

BuildOk == [kind |-> "Ok", error |-> "", id |-> "", route |-> "",
            collided_pages |-> {}]

BuildPanic(message, id) ==
    [kind |-> "Panic", error |-> message, id |-> id, route |-> "",
     collided_pages |-> {}]

NotBuilt == [kind |-> "none", error |-> "", id |-> "", route |-> "",
             collided_pages |-> {}]

\* mutant: the id check is lost
IdDuplicate_Never(id_set, id) == FALSE

\* !id_set.insert(id): the id was seen before
IdDuplicate(id_set, id) == id \in id_set

\* mutant: the route check is lost
RouteDuplicate_Never(route_set, route) == FALSE

\* !route_set.insert(route): the route was seen before
RouteDuplicate(route_set, route) == route \in route_set

\* mutant: find instead of filter, one colliding id is reported
CollidedPages_First(inserted, route) ==
    LET all == {k \in DOMAIN inserted : inserted[k] = route}
    IN  IF all = {} THEN {} ELSE {CHOOSE k \in all : TRUE}

\* the ids of the route table (the current document inserted) whose route is
\* the colliding one; a HashMap iteration, so a set
CollidedPages(inserted, route) == {k \in DOMAIN inserted : inserted[k] = route}

\* mutant: the route is computed and not kept
RoutesInsert_Dropped(route_table, id, route) == route_table

\* routes.insert(id, route)
RoutesInsert(route_table, id, route) ==
    [k \in DOMAIN route_table \cup {id} |->
        IF k = id THEN route ELSE route_table[k]]

RECURSIVE RouteLoop(_, _, _, _, _)
\* the loop of Website::build over self.documents(): result and route table
RouteLoop(docs, category_map, id_set, route_table, route_set) ==
    IF Len(docs) = 0 THEN [result |-> BuildOk, routes |-> route_table]
    ELSE
      LET document == Head(docs)
          has_category == Len(document.category) = 1
      IN
      IF IdDuplicate(id_set, document.id)
      THEN [result |-> BuildErr("duplicate document ID", document.id, "", {}),
            routes |-> route_table]
      ELSE IF has_category /\ document.category[1] \notin DOMAIN category_map
      THEN [result |-> BuildErr("invalid document category", document.id, "", {}),
            routes |-> route_table]
      ELSE
        LET prefix == IF has_category THEN category_map[document.category[1]]
                      ELSE <<>>
            route == prefix \o FileNameSegments(document)
            inserted == RoutesInsert(route_table, document.id, route)
        IN
        IF RouteDuplicate(route_set, route)
        THEN [result |-> BuildErr("duplicate route", "", Join(route, "/"),
                                  CollidedPages(inserted, route)),
              routes |-> inserted]
        ELSE RouteLoop(Tail(docs), category_map, id_set \cup {document.id},
                       inserted, route_set \cup {route})

\* document_titles of the context: id -> title of the documents that have one
DocumentTitles(docs) ==
    [id \in {docs[i].id : i \in {j \in DOMAIN docs : HasTitle(docs[j])}} |->
        TitleOf(id)]

\* mutant: the builder is made from the documents whatever the loop returned
BuilderDocuments_Always(result, docs) == docs

\* the documents of the WebsiteBuilder: the loop returns from build on the
\* first error, and only after the loop is WebsiteBuilder::new reached
BuilderDocuments(result, docs) == IF result.kind = "Ok" THEN docs ELSE <<>>

\* Website::build up to the construction of the WebsiteBuilder
Website_build(w) ==
    IF validate_panics(w)
    THEN [result |-> BuildPanic("nests beyond level 3", ""), routes |-> EmptyMap,
          documents |-> <<>>, document_titles |-> EmptyMap]
    ELSE
      LET sorted == [w EXCEPT !.posts = SortPosts(w.posts)]
          category_map == load_map_all(sorted.categories, EmptyMap, <<>>)
      IN
      IF documents_panics(sorted)
      THEN [result |-> BuildPanic("unwrap on None", "blog"), routes |-> EmptyMap,
            documents |-> <<>>, document_titles |-> EmptyMap]
      ELSE
        LET looped == RouteLoop(Website_documents(sorted), category_map, {},
                                EmptyMap, {})
        IN  IF looped.result.kind = "Ok"
            THEN [result |-> BuildOk, routes |-> looped.routes,
                  documents |-> BuilderDocuments(looped.result,
                                                 Website_documents(sorted)),
                  document_titles |-> DocumentTitles(Website_documents(sorted))]
            ELSE [result |-> looped.result, routes |-> EmptyMap,
                  documents |-> BuilderDocuments(looped.result,
                                                 Website_documents(sorted)),
                  document_titles |-> EmptyMap]

\* ------------------------------------------------------------ links

LinkID(id) == [kind |-> "ID", id |-> id, link_title |-> "", destination |-> ""]
LinkCustom(title, destination) ==
    [kind |-> "Custom", id |-> "", link_title |-> title, destination |-> destination]

RECURSIVE CommonPrefix(_, _)
\* from.iter().zip(to).take_while(|(a, b)| a == b).count()
CommonPrefix(from, to) ==
    IF Len(from) = 0 \/ Len(to) = 0 THEN 0
    ELSE IF Head(from) = Head(to) THEN 1 + CommonPrefix(Tail(from), Tail(to))
    ELSE 0

\* mutant: the loop runs over 0..n
UpSteps_FromZero(n) == n

\* the iterations of `for _ in 1..n`
UpSteps(n) == IF n >= 1 THEN n - 1 ELSE 0

HrefOk(text) == [kind |-> "ok", href |-> text, message |-> ""]
HrefPanic(message) == [kind |-> "panic", href |-> "", message |-> message]

\* mutant: the source page is looked up before the link is matched
resolve_href_SourceFirst(route_table, link, from_page) ==
    IF from_page \notin DOMAIN route_table
    THEN HrefPanic("invalid page reference: " \o from_page)
    ELSE IF link.kind = "Custom" THEN HrefOk(link.destination)
    ELSE HrefPanic("invalid page reference: " \o link.id)

\* WebsiteRenderContext::resolve_href
resolve_href(route_table, link, from_page) ==
    IF link.kind = "Custom" THEN HrefOk(link.destination)
    ELSE IF from_page \notin DOMAIN route_table
    THEN HrefPanic("invalid page reference: " \o from_page)
    ELSE IF link.id \notin DOMAIN route_table
    THEN HrefPanic("invalid page reference: " \o link.id)
    ELSE
      LET from == route_table[from_page]
          to == route_table[link.id]
          start_index == CommonPrefix(from, to)
      IN  IF start_index = Len(to)
          THEN HrefOk("./" \o to[Len(to)])
          ELSE HrefOk(Repeat("../", UpSteps(Len(from) - start_index))
                      \o Join(SubSeq(to, start_index + 1, Len(to)), "/"))

\* ------------------------------------------------------------ style registry

\* CSSQuery: None is <<>>, Media(m) is <<m>>
CSSRule(query, identifier, contents) ==
    [query |-> query, identifier |-> identifier, contents |-> contents]

\* The rule generators of the explored runs.  A generator is a function
\* pointer and the registry compares pointers; each is named here by its
\* call site.  "root" and "root_again" are two generators of the same
\* (scope, selector); "root_print" has the selector of "root" under a media
\* query.
Generators == {"root", "root_print", "body", "root_again"}

\* callback(): what each generator returns
Generate(generator) ==
    CASE generator = "root" ->
            CSSRule(None, ":root", <<"--body-bg: #000000", "font-size: 16px">>)
      [] generator = "root_print" ->
            CSSRule(Some("print"), ":root", <<"--body-bg: white">>)
      [] generator = "body" ->
            CSSRule(None, "body", <<"margin: 0">>)
      [] generator = "root_again" ->
            CSSRule(None, ":root", <<"font-size: 12pt">>)
      [] generator = "navigation_menu" ->
            CSSRule(None, ".navigation", <<"display: flex", "flex-direction: row">>)

\* The rule generators a rendered page registers, by the first of the
\* navigation menu every page holds.
PageGenerators == <<"navigation_menu">>

ImportSources == {"url('fonts.css')", "theme.css"}

\* mutant: a Vec push, every call appends
IndexSetInsert_Push(set, value) == Append(set, value)

\* IndexSet::insert: append unless present
IndexSetInsert(set, value) ==
    IF \E i \in DOMAIN set : set[i] = value THEN set ELSE Append(set, value)

\* "{:indent$}" of the empty string
Spaces(n) == Repeat(" ", n)

\* the lines write emits for one rule
RuleLines(rule) ==
    LET media == Len(rule.query) = 1
        indent == IF media THEN 1 ELSE 0
    IN  (IF media THEN <<"@media " \o rule.query[1] \o " {">> ELSE <<>>)
        \o <<Spaces(indent * 4) \o rule.identifier \o " {">>
        \o [i \in DOMAIN rule.contents |->
              Spaces((indent + 1) * 4) \o rule.contents[i] \o ";"]
        \o (IF media THEN <<Spaces(4) \o "}", "}">> ELSE <<"}">>)
        \o <<"">>

\* mutant: the import text is written inside double quotes
ImportLines_Quoted(import_set) ==
    [i \in DOMAIN import_set |-> "@import \"" \o import_set[i] \o "\";"]

\* the lines write emits for the imports: writeln!(out, "@import {};", import)
ImportLines(import_set) ==
    [i \in DOMAIN import_set |-> "@import " \o import_set[i] \o ";"]

\* mutant: the blank line is written whatever the imports are
BlankAfterImports_Always(import_set) == <<"">>

\* the blank line write emits after the imports, if there are any
BlankAfterImports(import_set) == IF Len(import_set) > 0 THEN <<"">> ELSE <<>>

\* mutant: the selector alone is the key
SeenKey_Selector(rule) == <<None, rule.identifier>>

\* the key of seen_identifiers
SeenKey(rule) == <<rule.query, rule.identifier>>

\* mutant: the generator is called for the check and again for the output
Called_Twice(count, generator) ==
    [count EXCEPT ![generator] = count[generator] + 2]

\* one call of a generator
Called(count, generator) ==
    [count EXCEPT ![generator] = count[generator] + 1]

WriteOk == [kind |-> "Ok", query |-> None, identifier |-> ""]
WritePanic(query, identifier) ==
    [kind |-> "Panic", query |-> query, identifier |-> identifier]
NotWritten == [kind |-> "open", query |-> None, identifier |-> ""]

RECURSIVE WriteRules(_, _, _, _)
\* the rule loop of CSSBuilder::write: each generator is called when the
\* iteration reaches it; a repeated (query, identifier) panics there
WriteRules(rule_set, seen_identifiers, out, count) ==
    IF Len(rule_set) = 0
    THEN [result |-> WriteOk, out |-> out, invoked |-> count]
    ELSE
      LET rule == Generate(Head(rule_set))
          called == Called(count, Head(rule_set))
      IN  IF SeenKey(rule) \in seen_identifiers
          THEN [result |-> WritePanic(rule.query, rule.identifier), out |-> out,
                invoked |-> called]
          ELSE WriteRules(Tail(rule_set), seen_identifiers \cup {SeenKey(rule)},
                          out \o RuleLines(rule), called)

\* CSSBuilder::write on a sink that takes every line
CSSBuilder_write(import_set, rule_set, count) ==
    WriteRules(rule_set, {},
               ImportLines(import_set) \o BlankAfterImports(import_set), count)

\* ------------------------------------------------------------ link titles

TitleOk(text) == [kind |-> "ok", title |-> text, message |-> ""]
TitlePanic(message) == [kind |-> "panic", title |-> "", message |-> message]

\* mutant: a missing title is reported as an unknown id, routed or not
resolve_link_title_OneCase(route_table, titles, link) ==
    IF link.kind = "Custom" THEN TitleOk(link.link_title)
    ELSE IF link.id \in DOMAIN titles THEN TitleOk(titles[link.id])
    ELSE TitlePanic("Attempt to resolve link to unknown ID for " \o link.id)

\* WebsiteRenderContext::resolve_link_title
resolve_link_title(route_table, titles, link) ==
    IF link.kind = "Custom" THEN TitleOk(link.link_title)
    ELSE IF link.id \in DOMAIN titles THEN TitleOk(titles[link.id])
    ELSE IF link.id \in DOMAIN route_table
    THEN TitlePanic("Attempt to resolve link to document without title for "
                    \o link.id)
    ELSE TitlePanic("Attempt to resolve link to unknown ID for " \o link.id)

\* ------------------------------------------------------------ html nodes

\* HtmlFormat
HtmlIndent(n) == [kind |-> "Indent", indent |-> n]
HtmlPreformatted == [kind |-> "Preformatted", indent |-> 0]

\* ASCII letters, and the byte order of the characters of attribute names
AsciiUpper == "ABCDEFGHIJKLMNOPQRSTUVWXYZ"
AsciiLower == "abcdefghijklmnopqrstuvwxyz"
AsciiOrder == "!-0123456789" \o AsciiUpper \o "_" \o AsciiLower

\* the 1-based position of the character c in alphabet, 0 when it is absent
IndexIn(c, alphabet) ==
    LET hits == {i \in 1..Len(alphabet) : SubSeq(alphabet, i, i) = c}
    IN  IF hits = {} THEN 0 ELSE CHOOSE i \in hits : \A j \in hits : i <= j

RECURSIVE to_ascii_lowercase(_)
\* str::to_ascii_lowercase
to_ascii_lowercase(s) ==
    IF Len(s) = 0 THEN ""
    ELSE LET i == IndexIn(Head(s), AsciiUpper)
         IN  (IF i = 0 THEN Head(s) ELSE SubSeq(AsciiLower, i, i))
             \o to_ascii_lowercase(Tail(s))

\* Ordering::reverse
Reverse(ordering) ==
    CASE ordering = "Less" -> "Greater"
      [] ordering = "Greater" -> "Less"
      [] OTHER -> "Equal"

\* usize::cmp
NatCmp(a, b) == IF a < b THEN "Less" ELSE IF a > b THEN "Greater" ELSE "Equal"

RECURSIVE StrCmp(_, _)
\* str::cmp: lexicographic by bytes
StrCmp(a, b) ==
    IF Len(a) = 0 /\ Len(b) = 0 THEN "Equal"
    ELSE IF Len(a) = 0 THEN "Less"
    ELSE IF Len(b) = 0 THEN "Greater"
    ELSE IF Head(a) = Head(b) THEN StrCmp(Tail(a), Tail(b))
    ELSE NatCmp(IndexIn(Head(a), AsciiOrder), IndexIn(Head(b), AsciiOrder))

RECURSIVE Replace(_, _, _)
\* str::replace(from, to): every occurrence, left to right
Replace(s, from, to) ==
    IF Len(s) = 0 THEN ""
    ELSE IF StartsWith(s, from)
    THEN to \o Replace(SubSeq(s, Len(from) + 1, Len(s)), from, to)
    ELSE Head(s) \o Replace(Tail(s), from, to)

\* the text contains the substring
HasPart(s, part) ==
    \E i \in 1..Len(s) :
        i + Len(part) - 1 <= Len(s) /\ SubSeq(s, i, i + Len(part) - 1) = part

\* Tag::from_name: the names of the void registry
VoidNames == {"!doctype", "area", "base", "br", "col", "embed", "hr", "img",
              "input", "link", "meta", "source", "track", "wbr"}

Tag_from_name(name) ==
    [name |-> name, is_void |-> to_ascii_lowercase(name) \in VoidNames]

NoTag == [name |-> "", is_void |-> FALSE]
NoLink == LinkID("")

\* A node of the render tree.  Every node is a record of the same fields:
\* kind is the implementor of Html, content holds the children of an element,
\* the members of an aggregate or the optional content of a LinkText.
HtmlNode(kind, text, tag, attributes, content, enable_inline, preformatted, link, title) ==
    [kind |-> kind, text |-> text, tag |-> tag, attributes |-> attributes,
     content |-> content, enable_inline |-> enable_inline,
     preformatted_content |-> preformatted, link |-> link, title |-> title]

HtmlPlaintext(text) ==
    HtmlNode("Plaintext", text, NoTag, EmptyMap, <<>>, FALSE, FALSE, NoLink, None)
RawHtml(text) ==
    HtmlNode("Raw", text, NoTag, EmptyMap, <<>>, FALSE, FALSE, NoLink, None)
\* the aggregates: kind is "Tuple", "Array" or "Vec"
Aggregate(kind, members) ==
    HtmlNode(kind, "", NoTag, EmptyMap, members, FALSE, FALSE, NoLink, None)
\* LinkText { link, title, content }
LinkText(link, title, content) ==
    HtmlNode("LinkText", "", NoTag, EmptyMap, content, FALSE, FALSE, link, title)

\* HtmlElement::new
HtmlElement_new(tag) ==
    HtmlNode("Element", "", tag, EmptyMap, <<>>, FALSE, FALSE, NoLink, None)

\* HtmlElement::attribute: attributes.insert(name, value)
HtmlElement_attribute(element, attribute_name, value) ==
    [element EXCEPT !.attributes =
        [k \in DOMAIN element.attributes \cup {attribute_name} |->
            IF k = attribute_name THEN value ELSE element.attributes[k]]]

\* mutant: content is pushed whatever the tag is
ContentRejected_Never(element) == FALSE

\* HtmlElement::content / content_opt: the check that panics
ContentRejected(element) == element.tag.is_void

\* HtmlElement::content: content.push(Box::new(content))
HtmlElement_content(element, content) ==
    [element EXCEPT !.content = Append(element.content, content)]

\* HtmlElement::inline
HtmlElement_inline(element, can_inline) ==
    [element EXCEPT !.enable_inline = can_inline]

\* HtmlElement::preformatted_content
HtmlElement_preformatted_content(element, preformatted) ==
    [element EXCEPT !.preformatted_content = preformatted]

\* the render context the nodes are built in
Context(route_table, titles, page) ==
    [routes |-> route_table, document_titles |-> titles, current_page |-> page]

RECURSIVE AllOf(_)
\* a && b && ... of the tuple implementations
AllOf(flags) == IF Len(flags) = 0 THEN TRUE ELSE Head(flags) /\ AllOf(Tail(flags))

\* mutant: the last member is not asked
Tuple_is_inline_ButLast(flags) == AllOf(SubSeq(flags, 1, Len(flags) - 1))

\* is_inline of the tuples (C1, C2) .. (C1, .., C7), from the members' answers
Tuple_is_inline(flags) == AllOf(flags)

\* iter().all(|item| item.is_inline(context)), from the members' answers
iter_all(flags) == \A i \in DOMAIN flags : flags[i]

RECURSIVE Html_is_inline(_, _)
\* Html::is_inline of every implementor.  A LinkText without content asks
\* the context for the title of its link.
Html_is_inline(node, context) ==
    LET members == [i \in DOMAIN node.content |->
                        Html_is_inline(node.content[i], context)]
    IN  CASE node.kind \in {"Plaintext", "Raw"} -> ~HasPart(node.text, "\n")
          [] node.kind = "Element" -> node.enable_inline /\ iter_all(members)
          [] node.kind = "Tuple" -> Tuple_is_inline(members)
          [] node.kind \in {"Array", "Vec"} -> iter_all(members)
          [] node.kind = "LinkText" ->
                IF Len(node.content) = 1 THEN members[1]
                ELSE ~HasPart(resolve_link_title(context.routes,
                                  context.document_titles, node.link).title, "\n")

\* mutant: the ampersand is replaced last
EscapeText_AmpLast(text) ==
    Replace(Replace(Replace(Replace(Replace(Replace(text,
        "\r\n", "\n"), "<", "&lt;"), ">", "&gt;"), "\"", "&quot;"),
        "'", "&#x27;"), "&", "&amp;")

\* the replacements of HtmlPlaintext::build, in the order they are applied
EscapeText(text) ==
    Replace(Replace(Replace(Replace(Replace(Replace(text,
        "\r\n", "\n"), "&", "&amp;"), "<", "&lt;"), ">", "&gt;"),
        "\"", "&quot;"), "'", "&#x27;")

\* a line of str::lines: the "\n" is cut and a "\r" before it as well
StripCR(line) ==
    IF Len(line) > 0 /\ SubSeq(line, Len(line), Len(line)) = "\r"
    THEN SubSeq(line, 1, Len(line) - 1) ELSE line

RECURSIVE LinesAcc(_, _)
LinesAcc(s, current) ==
    IF Len(s) = 0 THEN (IF Len(current) = 0 THEN <<>> ELSE <<current>>)
    ELSE IF Head(s) = "\n" THEN <<StripCR(current)>> \o LinesAcc(Tail(s), "")
    ELSE LinesAcc(Tail(s), current \o Head(s))

\* str::lines: the lines of the text; a final line ending adds no empty line
Lines(s) == LinesAcc(s, "")

\* HtmlPlaintext::build
HtmlPlaintext_build(text, format) ==
    IF format.kind = "Indent"
    THEN Join(Lines(EscapeText(text)), "\n" \o Spaces(format.indent * 4))
    ELSE EscapeText(text)

ATTRIBUTE_ORDER == <<"id", "name", "class", "src", "for", "type", "href",
                     "value", "title", "alt", "role">>

\* iter().position(|x| x == key)
Position(seq, key) ==
    IF \E i \in DOMAIN seq : seq[i] = key
    THEN Some(CHOOSE i \in DOMAIN seq : seq[i] = key)
    ELSE None

\* the comparator handed to sort_unstable_by, with the names of its parameters:
\* r_key is the first (left) argument, l_key the second
AttributeCompare(r_key, l_key) ==
    LET r_idx == Position(ATTRIBUTE_ORDER, r_key)
        l_idx == Position(ATTRIBUTE_ORDER, l_key)
    IN  CASE Len(r_idx) = 1 /\ Len(l_idx) = 1 -> Reverse(NatCmp(r_idx[1], l_idx[1]))
          [] Len(r_idx) = 1 /\ Len(l_idx) = 0 -> "Greater"
          [] Len(r_idx) = 0 /\ Len(l_idx) = 1 -> "Less"
          [] OTHER -> StrCmp(r_key, l_key)

RECURSIVE SortAttributes(_)
\* attributes.sort_unstable_by(compare): the names in the one order where
\* compare(earlier, later) is never Greater (the names of a map are distinct
\* and the comparator is a total order, so the iteration order of the map
\* does not show)
SortAttributes(names) ==
    IF names = {} THEN <<>>
    ELSE LET first == CHOOSE a \in names :
                        \A b \in names \ {a} : AttributeCompare(a, b) # "Greater"
         IN  <<first>> \o SortAttributes(names \ {first})

\* one attribute of a start tag
AttributeText(attribute_name, attribute_value) ==
    IF Len(attribute_value) = 1 /\ Len(attribute_value[1]) > 0
    THEN " " \o attribute_name \o "=\""
         \o Replace(attribute_value[1], "\"", "&quot;") \o "\""
    ELSE " " \o attribute_name

\* "<tag" and the attributes, sorted
StartTag(element) ==
    LET sorted == SortAttributes(DOMAIN element.attributes)
    IN  "<" \o element.tag.name
        \o Join([i \in DOMAIN sorted |->
                    AttributeText(sorted[i], element.attributes[sorted[i]])], "")

\* mutant: the children get the format the element was given
ContentFormat_Ambient(element, format) == format

\* the format the children are built with when the element is not laid out
\* as an indented block
ContentFormat(element, format) ==
    IF element.preformatted_content THEN HtmlPreformatted ELSE format

\* mutant: the separator is indented one level deeper
Separator_Deeper(format) ==
    IF format.kind = "Indent"
    THEN "\n" \o Spaces((format.indent + 1) * 4) ELSE ""

\* what the aggregates write between two members when they are not inline:
\* writeln!(html_out) and indent * 4 spaces in Indent format, else nothing
Separator(format) ==
    IF format.kind = "Indent" THEN "\n" \o Spaces(format.indent * 4) ELSE ""

RECURSIVE Html_build(_, _, _)
\* Html::build of every implementor: the text written to html_out
Html_build(node, context, format) ==
    LET inline == Html_is_inline(node, context)
        separator == Separator(format)
        members == [i \in DOMAIN node.content |->
                        Html_build(node.content[i], context, format)]
    IN  CASE node.kind = "Plaintext" -> HtmlPlaintext_build(node.text, format)
          [] node.kind = "Raw" -> node.text
          [] node.kind = "Tuple" ->
                IF inline THEN Join(members, "") ELSE Join(members, separator)
          [] node.kind \in {"Array", "Vec"} ->
                IF format.kind = "Indent" /\ ~inline
                THEN Join(members, separator) ELSE Join(members, "")
          [] node.kind = "Element" ->
                IF node.tag.is_void THEN StartTag(node) \o ">"
                ELSE IF Len(node.content) = 0
                THEN StartTag(node) \o "></" \o node.tag.name \o ">"
                ELSE IF format.kind = "Indent" /\ ~inline
                        /\ ~node.preformatted_content
                THEN StartTag(node) \o ">\n" \o Spaces((format.indent + 1) * 4)
                     \o Join([i \in DOMAIN node.content |->
                                Html_build(node.content[i], context,
                                           HtmlIndent(format.indent + 1))], "")
                     \o "\n" \o Spaces(format.indent * 4)
                     \o "</" \o node.tag.name \o ">"
                ELSE StartTag(node) \o ">"
                     \o Join([i \in DOMAIN node.content |->
                                Html_build(node.content[i], context,
                                           ContentFormat(node, format))], "")
                     \o "</" \o node.tag.name \o ">"
          [] node.kind = "LinkText" ->
                LET link_text == resolve_link_title(context.routes,
                                     context.document_titles, node.link).title
                    href == resolve_href(context.routes, node.link,
                                         context.current_page[1]).href
                    titled == IF Len(node.title) = 1
                              THEN HtmlElement_attribute(
                                      HtmlElement_new(Tag_from_name("a")),
                                      "title", node.title)
                              ELSE HtmlElement_new(Tag_from_name("a"))
                    linked == HtmlElement_attribute(titled, "href", Some(href))
                    filled == [linked EXCEPT !.content =
                                  (IF Len(node.content) = 0
                                   THEN <<HtmlPlaintext(link_text)>> ELSE <<>>)
                                  \o node.content]
                IN  Html_build(HtmlElement_inline(filled, TRUE), context, format)

\* mutant: the title is resolved only when it is going to be the content
LinkText_resolve_Lazy(node, context) ==
    LET title == resolve_link_title(context.routes, context.document_titles,
                                    node.link)
        href == resolve_href(context.routes, node.link, context.current_page[1])
    IN  IF Len(node.content) = 0 /\ title.kind = "panic" THEN title.message
        ELSE IF href.kind = "panic" THEN href.message
        ELSE ""

\* context.resolve_link(&self.link, context.current_page()) at the head of
\* LinkText::build, the title first and the href second: the message of the
\* panic, or "" when both resolve
LinkText_resolve(node, context) ==
    LET title == resolve_link_title(context.routes, context.document_titles,
                                    node.link)
        href == resolve_href(context.routes, node.link, context.current_page[1])
    IN  IF title.kind = "panic" THEN title.message
        ELSE IF href.kind = "panic" THEN href.message
        ELSE ""

RECURSIVE Html_build_panic(_, _)
\* the panic Html::build ends in, or "": a link node resolves its link
\* before it builds its element, and a node fails where its first failing
\* child does
Html_build_panic(node, context) ==
    LET members == [i \in DOMAIN node.content |->
                        Html_build_panic(node.content[i], context)]
        failed == {i \in DOMAIN members : members[i] # ""}
        first == IF failed = {} THEN ""
                 ELSE members[CHOOSE i \in failed : \A j \in failed : i <= j]
    IN  IF node.kind = "LinkText" /\ LinkText_resolve(node, context) # ""
        THEN LinkText_resolve(node, context)
        ELSE first

\* ------------------------------------------------------------ inputs

SeqsUpTo(S, n) == UNION {[1..k -> S] : k \in 0..n}

NoneOrOne(S) == {<<>>} \cup {<<c>> : c \in S}

\* Category trees: a top-level category over a chain of sub-categories, down
\* to a fourth level (which validate rejects).  Ids repeat between levels,
\* "index.html" is an id that is also a file name, and the post file "blog"
\* has the id of a category.
Level4 == {Category("tech", FALSE, <<>>)}
Level3 == {Category("tech", u, s) : u \in BOOLEAN, s \in NoneOrOne(Level4)}
Level2 == {Category(i, u, s) : i \in {"tech", "blog", "index.html"},
                               u \in BOOLEAN, s \in NoneOrOne(Level3)}
Level1 == {Category(i, FALSE, s) : i \in {"blog", "tech"}, s \in NoneOrOne(Level2)}
CategoryTrees == NoneOrOne(Level1)

\* Post files (id is the file name, date its metadata) and the categories
\* their metadata may name; "misc" is no category of any tree.
PostFiles == {[id |-> "p", date |-> 1], [id |-> "index", date |-> 1],
              [id |-> "blog", date |-> 2]}
LinkPostFiles == {[id |-> "p", date |-> 1], [id |-> "q", date |-> 2]}
PostCategories == {"blog", "tech", "misc"}
ResourceFiles == {[id |-> "resource:x", extension |-> ".svg"],
                  [id |-> "x", extension |-> ".svg"]}

PostsOf(files, categories) ==
    {[id |-> f.id, date |-> f.date, category |-> c] : f \in files, c \in categories}

\* posts is an IndexMap: its keys (the post ids) are distinct
PostLists(files, categories) ==
    {ps \in SeqsUpTo(PostsOf(files, categories), MaxPosts) :
        \A i, j \in DOMAIN ps : i # j => ps[i].id # ps[j].id}

Websites ==
    {[categories |-> cs, posts |-> ps, resources |-> rs] :
        cs \in CategoryTrees,
        ps \in PostLists(PostFiles, PostCategories),
        rs \in SeqsUpTo(ResourceFiles, MaxResources)}

\* The sites link resolution is explored on: blog over tech or index.html,
\* posts in both, one resource.
LinkLevel2 == {Category(i, u, <<>>) : i \in {"tech", "index.html"}, u \in BOOLEAN}
LinkTrees == {<<Category("blog", FALSE, s)>> : s \in NoneOrOne(LinkLevel2)}
LinkWebsites ==
    {[categories |-> cs, posts |-> ps, resources |-> rs] :
        cs \in LinkTrees,
        ps \in PostLists(LinkPostFiles, {"blog", "tech"}),
        rs \in SeqsUpTo({f \in ResourceFiles : f.id = "resource:x"}, MaxResources)}

\* ------------------------------------------------------------ actions

NoCall == [link |-> LinkID(""), from_page |-> "", result |-> HrefPanic("")]
NoTitleCall == [link |-> LinkID(""), result |-> TitlePanic("")]

RenderNone == [kind |-> "none", message |-> ""]
RenderOk == [kind |-> "Ok", message |-> ""]
RenderPanic(message) == [kind |-> "Panic", message |-> message]

HtmlOpen == [kind |-> "open", message |-> ""]
HtmlBuilt == [kind |-> "Ok", message |-> ""]
HtmlPanic(message) == [kind |-> "Panic", message |-> message]
NoFormat == [kind |-> "none", indent |-> 0]

InitWeb ==
    /\ build_result = NotBuilt
    /\ routes = EmptyMap
    /\ current_page = None
    /\ documents = <<>>
    /\ href_call = NoCall
    /\ document_titles = EmptyMap
    /\ title_call = NoTitleCall
    /\ yielded = None
    /\ next_history = <<>>
    /\ render_log = <<>>
    /\ render_result = RenderNone

InitCss ==
    /\ imports = <<>>
    /\ rules = <<>>
    /\ css_calls = <<>>
    /\ invoked = [g \in Generators \cup Range(PageGenerators) |-> 0]
    /\ css_out = <<>>
    /\ css_result = NotWritten

InitHtml ==
    /\ html_node = HtmlPlaintext("")
    /\ html_format = NoFormat
    /\ html_out = ""
    /\ html_result = HtmlOpen
    /\ inline_result = None

InitOther ==
    /\ InitWeb
    /\ InitCss
    /\ InitHtml

Init ==
    /\ website \in Websites
    /\ InitOther

LinkInit ==
    /\ website \in LinkWebsites
    /\ InitOther

\* Website::build(self, stylesheet)
Build ==
    /\ build_result.kind = "none"
    /\ LET built == Website_build(website)
       IN  /\ build_result' = built.result
           /\ routes' = built.routes
           /\ documents' = built.documents
           /\ document_titles' = built.document_titles
    /\ current_page' = None
    /\ UNCHANGED <<website, href_call, title_call, yielded, next_history,
                   render_log, render_result>>
    /\ UNCHANGED css_vars
    /\ UNCHANGED html_vars

\* mutant: the iterator hands out its last document
IterNext_Back(docs) ==
    IF Len(docs) = 0 THEN [item |-> None, rest |-> docs]
    ELSE [item |-> Some(docs[Len(docs)]), rest |-> SubSeq(docs, 1, Len(docs) - 1)]

\* vec::IntoIter::next: the first remaining document, None when there is none
IterNext(docs) ==
    IF Len(docs) = 0 THEN [item |-> None, rest |-> docs]
    ELSE [item |-> Some(Head(docs)), rest |-> Tail(docs)]

\* the calls of next so far that returned None
ExhaustedCalls == Len(SelectSeq(next_history, LAMBDA r : Len(r) = 0))

\* WebsiteBuilder::next, called by main when the body of its loop is done:
\* yield the next document and set the current page, or return None
\* (href_call and title_call restart: they record calls made for the current
\* page)
BuilderNext ==
    /\ build_result.kind = "Ok"
    /\ render_result.kind # "Panic"
    /\ yielded = None
    /\ ExhaustedCalls < MaxExhaustedCalls
    /\ LET next == IterNext(documents)
       IN  /\ documents' = next.rest
           /\ yielded' = next.item
           /\ current_page' = IF Len(next.item) = 1 THEN Some(next.item[1].id)
                              ELSE current_page
           /\ next_history' = Append(next_history,
                                     IF Len(next.item) = 1
                                     THEN Some(next.item[1].id) ELSE None)
    /\ href_call' = NoCall
    /\ title_call' = NoTitleCall
    /\ UNCHANGED <<website, build_result, routes, document_titles, render_log,
                   render_result>>
    /\ UNCHANGED css_vars
    /\ UNCHANGED html_vars

\* mutant: rendering registers nothing
RegisterAll_Nothing(rule_set, generators) == rule_set

RECURSIVE RegisterAll(_, _)
\* context.stylesheet().register(style) for each style of a component
RegisterAll(rule_set, generators) ==
    IF Len(generators) = 0 THEN rule_set
    ELSE RegisterAll(IndexSetInsert(rule_set, Head(generators)), Tail(generators))

RECURSIVE FirstLinkPanic(_, _, _, _)
\* the LinkButtons of the navigation call resolve_link(link, current_page),
\* the title first and the href second: the message of the first panic, or ""
FirstLinkPanic(links, route_table, titles, from_page) ==
    IF Len(links) = 0 THEN ""
    ELSE
      LET title == resolve_link_title(route_table, titles, LinkID(Head(links)))
          href == resolve_href(route_table, LinkID(Head(links)), from_page)
      IN  IF title.kind = "panic" THEN title.message
          ELSE IF href.kind = "panic" THEN href.message
          ELSE FirstLinkPanic(Tail(links), route_table, titles, from_page)

\* The body of main's loop for the yielded document: the route is looked up,
\* Document::build takes the render slot and calls the closure, and the
\* Renderable is rendered.  A page registers the rules of its components and
\* resolves the links of its navigation; the stylesheet placeholder and the
\* resources register and resolve nothing.  (What a post's content adds to
\* the page is left out.)
Render ==
    /\ Len(yielded) = 1
    /\ render_result.kind # "Panic"
    /\ LET document == yielded[1]
           built == Document_build(document)
           link_panic == FirstLinkPanic(NavigationLinks(website), routes,
                                        document_titles, current_page[1])
       IN  IF document.id \notin DOMAIN routes
           THEN /\ render_result' = RenderPanic("Unknown route for: " \o document.id)
                /\ UNCHANGED <<render_log, rules>>
           ELSE IF built.kind = "Panic"
           THEN /\ render_result' = RenderPanic("double-render")
                /\ UNCHANGED <<render_log, rules>>
           ELSE /\ render_log' = Append(render_log, document.id)
                /\ IF document.variant = "HTML"
                   THEN /\ rules' = RegisterAll(rules, PageGenerators)
                        /\ render_result' = IF link_panic = "" THEN RenderOk
                                            ELSE RenderPanic(link_panic)
                   ELSE /\ rules' = rules
                        /\ render_result' = RenderOk
    /\ yielded' = None
    /\ UNCHANGED <<website, build_result, routes, current_page, documents,
                   href_call, document_titles, title_call, next_history>>
    /\ UNCHANGED <<imports, css_calls, invoked, css_out, css_result>>
    /\ UNCHANGED html_vars

\* a render step of the current page resolving a link: the target is a
\* routed document, an unknown id or a custom link; the source page is the
\* current page or an unknown id (href_call and title_call hold the last
\* resolve call of the page, whichever of the two it was)
ResolveHref ==
    /\ build_result.kind = "Ok"
    /\ Len(current_page) = 1
    /\ Len(yielded) = 1
    /\ \E link \in {LinkID(t) : t \in DOMAIN routes \cup {"nowhere"}}
                   \cup {LinkCustom("Example", "https://example.org/")},
          from_page \in {current_page[1], "nowhere"} :
          href_call' = [link |-> link, from_page |-> from_page,
                        result |-> resolve_href(routes, link, from_page)]
    /\ title_call' = NoTitleCall
    /\ UNCHANGED <<website, build_result, routes, current_page, documents,
                   document_titles, yielded, next_history,
                   render_log, render_result>>
    /\ UNCHANGED css_vars
    /\ UNCHANGED html_vars

\* a render step of the current page resolving the title of a link
ResolveLinkTitle ==
    /\ build_result.kind = "Ok"
    /\ Len(current_page) = 1
    /\ Len(yielded) = 1
    /\ \E link \in {LinkID(t) : t \in DOMAIN routes \cup {"nowhere"}}
                   \cup {LinkCustom("Example", "https://example.org/")} :
          title_call' = [link |-> link,
                         result |-> resolve_link_title(routes, document_titles, link)]
    /\ href_call' = NoCall
    /\ UNCHANGED <<website, build_result, routes, current_page, documents,
                   document_titles, yielded, next_history,
                   render_log, render_result>>
    /\ UNCHANGED css_vars
    /\ UNCHANGED html_vars

\* the site of the runs that explore the style registry alone
EmptySite == [categories |-> <<>>, posts |-> <<>>, resources |-> <<>>]

CssInit ==
    /\ website = EmptySite
    /\ InitOther

\* CSSBuilder::import
CssImport ==
    /\ css_result.kind = "open"
    /\ Len(css_calls) < MaxCssCalls
    /\ \E source \in ImportSources :
          /\ imports' = IndexSetInsert(imports, source)
          /\ css_calls' = Append(css_calls, [call |-> "import", arg |-> source])
    /\ UNCHANGED <<rules, invoked, css_out, css_result>>
    /\ UNCHANGED web_vars
    /\ UNCHANGED html_vars

\* CSSBuilder::register
CssRegister ==
    /\ css_result.kind = "open"
    /\ Len(css_calls) < MaxCssCalls
    /\ \E generator \in Generators :
          /\ rules' = IndexSetInsert(rules, generator)
          /\ css_calls' = Append(css_calls, [call |-> "register", arg |-> generator])
    /\ UNCHANGED <<imports, invoked, css_out, css_result>>
    /\ UNCHANGED web_vars
    /\ UNCHANGED html_vars

\* CSSBuilder::write(self, out): consumes the builder
CssWrite ==
    /\ css_result.kind = "open"
    /\ LET written == CSSBuilder_write(imports, rules, invoked)
       IN  /\ css_result' = written.result
           /\ css_out' = written.out
           /\ invoked' = written.invoked
    /\ UNCHANGED <<imports, rules, css_calls>>
    /\ UNCHANGED web_vars
    /\ UNCHANGED html_vars

\* ------------------------------------------------------------ html actions

\* The context the nodes are explored in: two routed pages; the title of
\* "about" is one line or two.
SampleRoutes == "home" :> <<"index.html">> @@ "about" :> <<"about", "index.html">>
OneLineTitles == "home" :> "Home" @@ "about" :> "About"
TwoLineTitles == "home" :> "Home" @@ "about" :> "About\nus"

InitContext ==
    /\ website = EmptySite
    /\ build_result = BuildOk
    /\ routes = SampleRoutes
    /\ current_page = Some("home")
    /\ documents = <<>>
    /\ href_call = NoCall
    /\ title_call = NoTitleCall
    /\ yielded = None
    /\ next_history = <<>>
    /\ render_log = <<>>
    /\ render_result = RenderNone
    /\ InitCss

PageContext == Context(routes, document_titles, current_page)

\* plain texts: every string of up to MaxTextLen of these characters
TextChars == {"&", "<", ">", "\"", "'", "\n", "\r", "a", ";"}
Texts == {Join(cs, "") : cs \in SeqsUpTo(TextChars, MaxTextLen)}

Formats == {HtmlIndent(n) : n \in 0..MaxIndent} \cup {HtmlPreformatted}

\* the nodes elements and aggregates are filled with
TextLine == HtmlPlaintext("a")
TextLines == HtmlPlaintext("a\nb")
\* html_break()
Break == HtmlElement_inline(HtmlElement_new(Tag_from_name("br")), TRUE)
\* html_paragraph(html_text("a"))
Paragraph == HtmlElement_content(HtmlElement_new(Tag_from_name("p")), TextLine)
\* html_link(Link::ID("about"), None)
LinkAbout == LinkText(LinkID("about"), None, <<>>)

Members == {TextLine, TextLines, Paragraph, LinkAbout, Aggregate("Vec", <<TextLine>>)}

\* tuples of 2 and more members, arrays and lists of any number
Aggregates ==
    {Aggregate("Tuple", ms) : ms \in {m \in SeqsUpTo(Members, MaxMembers) : Len(m) >= 2}}
    \cup {Aggregate(k, ms) : k \in {"Array", "Vec"}, ms \in SeqsUpTo(Members, MaxMembers)}

TagNames == VoidNames \cup {"!DOCTYPE", "BR", "div", "pre"}
AttributeNames == {"id", "class", "charset", "content"}
AttributeValues == {None, Some("a\"b")}
\* html_blockquote(html_text("a\nb"))
Blockquote ==
    HtmlElement_content(
        HtmlElement_inline(HtmlElement_new(Tag_from_name("blockquote")), TRUE),
        TextLines)
ContentNodes == {TextLine, TextLines, Break, Paragraph, Blockquote,
                 Aggregate("Tuple", <<TextLine, TextLines>>)}

TextInit ==
    /\ InitContext
    /\ document_titles = OneLineTitles
    /\ html_node \in {HtmlPlaintext(t) : t \in Texts}
    /\ html_format = NoFormat
    /\ html_out = ""
    /\ html_result = HtmlOpen
    /\ inline_result = None

InlineInit ==
    /\ InitContext
    /\ document_titles \in {OneLineTitles, TwoLineTitles}
    /\ html_node \in Aggregates
    /\ html_format = NoFormat
    /\ html_out = ""
    /\ html_result = HtmlOpen
    /\ inline_result = None

\* element(tag_name): HtmlElement::new(Tag::from_name(tag_name))
HtmlInit ==
    /\ InitContext
    /\ document_titles = OneLineTitles
    /\ html_node \in {HtmlElement_new(Tag_from_name(n)) : n \in TagNames}
    /\ html_format = NoFormat
    /\ html_out = ""
    /\ html_result = HtmlOpen
    /\ inline_result = None

\* the attributes and children the element has so far
BuilderSize == Cardinality(DOMAIN html_node.attributes) + Len(html_node.content)

\* HtmlElement::attribute / attribute_opt with a present value.  Setting a
\* name again trips the debug_assert: a build with debug assertions panics,
\* a build without them has replaced the value.
ElementAttribute ==
    /\ html_result.kind = "open"
    /\ \E attribute_name \in AttributeNames, value \in AttributeValues :
          /\ attribute_name \in DOMAIN html_node.attributes
             \/ BuilderSize < MaxBuilderCalls
          /\ \/ /\ html_node' = HtmlElement_attribute(html_node, attribute_name, value)
                /\ html_result' = html_result
             \/ /\ attribute_name \in DOMAIN html_node.attributes
                /\ html_node' = HtmlElement_attribute(html_node, attribute_name, value)
                /\ html_result' = HtmlPanic("attempt to override attribute "
                                            \o attribute_name)
    /\ UNCHANGED <<html_format, html_out, inline_result>>
    /\ UNCHANGED web_vars
    /\ UNCHANGED css_vars

\* HtmlElement::content
ElementContent ==
    /\ html_result.kind = "open"
    /\ BuilderSize < MaxBuilderCalls
    /\ \E content \in ContentNodes :
          IF ContentRejected(html_node)
          THEN /\ html_result' = HtmlPanic("Attempt to set content for void element "
                                           \o html_node.tag.name)
               /\ html_node' = html_node
          ELSE /\ html_node' = HtmlElement_content(html_node, content)
               /\ html_result' = html_result
    /\ UNCHANGED <<html_format, html_out, inline_result>>
    /\ UNCHANGED web_vars
    /\ UNCHANGED css_vars

\* HtmlElement::content_opt
ElementContentOpt ==
    /\ html_result.kind = "open"
    /\ BuilderSize < MaxBuilderCalls
    /\ \E content_opt \in NoneOrOne(ContentNodes) :
          IF ContentRejected(html_node)
          THEN /\ html_result' = HtmlPanic("Attempt to set content for void element "
                                           \o html_node.tag.name)
               /\ html_node' = html_node
          ELSE /\ html_node' = IF Len(content_opt) = 1
                               THEN HtmlElement_content(html_node, content_opt[1])
                               ELSE html_node
               /\ html_result' = html_result
    /\ UNCHANGED <<html_format, html_out, inline_result>>
    /\ UNCHANGED web_vars
    /\ UNCHANGED css_vars

\* HtmlElement::inline
ElementInline ==
    /\ html_result.kind = "open"
    /\ \E can_inline \in BOOLEAN :
          html_node' = HtmlElement_inline(html_node, can_inline)
    /\ UNCHANGED <<html_format, html_out, html_result, inline_result>>
    /\ UNCHANGED web_vars
    /\ UNCHANGED css_vars

\* HtmlElement::preformatted_content
ElementPreformatted ==
    /\ html_result.kind = "open"
    /\ \E preformatted \in BOOLEAN :
          html_node' = HtmlElement_preformatted_content(html_node, preformatted)
    /\ UNCHANGED <<html_format, html_out, html_result, inline_result>>
    /\ UNCHANGED web_vars
    /\ UNCHANGED css_vars

\* Html::is_inline(&self, context)
IsInline ==
    /\ html_result.kind = "open"
    /\ inline_result = None
    /\ inline_result' = Some(Html_is_inline(html_node, PageContext))
    /\ UNCHANGED <<html_node, html_format, html_out, html_result>>
    /\ UNCHANGED web_vars
    /\ UNCHANGED css_vars

\* Html::build(self, context, html_out, format): consumes the node; what a
\* build that panics had written is left out
BuildNode ==
    /\ html_result.kind = "open"
    /\ \E format \in Formats :
          /\ html_format' = format
          /\ html_out' = IF Html_build_panic(html_node, PageContext) = ""
                         THEN Html_build(html_node, PageContext, format)
                         ELSE ""
    /\ html_result' = IF Html_build_panic(html_node, PageContext) = ""
                      THEN HtmlBuilt
                      ELSE HtmlPanic(Html_build_panic(html_node, PageContext))
    /\ UNCHANGED <<html_node, inline_result>>
    /\ UNCHANGED web_vars
    /\ UNCHANGED css_vars

Next == Build \/ BuilderNext \/ Render

Spec == Init /\ [][Next]_vars

LinkNext == Build \/ BuilderNext \/ Render \/ ResolveHref \/ ResolveLinkTitle

LinkSpec == LinkInit /\ [][LinkNext]_vars

CssNext == CssImport \/ CssRegister \/ CssWrite

CssSpec == CssInit /\ [][CssNext]_vars

TextNext == IsInline \/ BuildNode

TextSpec == TextInit /\ [][TextNext]_vars

InlineNext == IsInline \/ BuildNode

InlineSpec == InlineInit /\ [][InlineNext]_vars

HtmlNext ==
    \/ ElementAttribute
    \/ ElementContent
    \/ ElementContentOpt
    \/ ElementInline
    \/ ElementPreformatted
    \/ BuildNode

HtmlSpec == HtmlInit /\ [][HtmlNext]_vars

\* ------------------------------------------------------------ route claims

\* the document list build works on: Website::documents after the posts sort
DocumentList == Website_documents([website EXCEPT !.posts = SortPosts(website.posts)])

\* build got as far as the route loop (neither validate nor documents panicked)
Looped == build_result.kind \in {"Ok", "Err"}

\* C1: after a successful build no two distinct documents of the document
\* list have the same route in the route table.
C1_RouteUniqueness ==
    build_result.kind = "Ok" =>
        /\ \A i \in DOMAIN DocumentList : DocumentList[i].id \in DOMAIN routes
        /\ \A i, j \in DOMAIN DocumentList :
              i # j => routes[DocumentList[i].id] # routes[DocumentList[j].id]

\* a successful build of at least six documents, two of them in the same
\* directory
C1_Witness ==
    /\ build_result.kind = "Ok"
    /\ Len(DocumentList) >= 6
    /\ \E a, b \in DOMAIN routes :
          /\ a # b
          /\ Len(routes[a]) = 2
          /\ SubSeq(routes[a], 1, 1) = SubSeq(routes[b], 1, 1)

\* the route build computes for a document, when its category is known
CategoryMap == load_map_all(website.categories, EmptyMap, <<>>)
Routable(document) ==
    Len(document.category) = 1 => document.category[1] \in DOMAIN CategoryMap
ComputedRoute(document) ==
    (IF Len(document.category) = 1 THEN CategoryMap[document.category[1]] ELSE <<>>)
    \o FileNameSegments(document)

\* C4: a route-collision error lists every document id of the full document
\* list whose computed route is the colliding route (at least two ids).
C4_CollisionListsAll ==
    (build_result.kind = "Err" /\ build_result.error = "duplicate route") =>
        /\ build_result.collided_pages =
              {DocumentList[i].id : i \in
                  {k \in DOMAIN DocumentList :
                      /\ Routable(DocumentList[k])
                      /\ Join(ComputedRoute(DocumentList[k]), "/") = build_result.route}}
        /\ Cardinality(build_result.collided_pages) >= 2

\* the category page of tech and the post "index" filed under tech collide
C4_Witness ==
    /\ build_result.kind = "Err"
    /\ build_result.error = "duplicate route"
    /\ build_result.route = "blog/tech/index.html"
    /\ build_result.collided_pages = {"tech", "index"}

HasDuplicateIds(docs) ==
    \E i, j \in DOMAIN docs : i # j /\ docs[i].id = docs[j].id

\* C5: build returns an error whenever two documents of the document list
\* share an id; on success the ids are pairwise distinct and are exactly the
\* ids of the route table.
C5_IdUniqueness ==
    /\ (Looped /\ HasDuplicateIds(DocumentList)) => build_result.kind = "Err"
    /\ build_result.kind = "Ok" =>
          /\ ~HasDuplicateIds(DocumentList)
          /\ DOMAIN routes = {DocumentList[i].id : i \in DOMAIN DocumentList}

\* the post file "blog" has the id of the listed category blog; their routes
\* differ, and build fails on the repeated id
C5_Witness ==
    /\ build_result.kind = "Err"
    /\ build_result.error = "duplicate document ID"
    /\ build_result.id = "blog"
    /\ \E i \in DOMAIN website.posts : website.posts[i].id = "blog"
    /\ Len(website.categories) = 1
    /\ ~website.categories[1].unlisted
    /\ website.categories[1].id_string = "blog"

RECURSIVE TreePaths(_, _)
\* every category of the tree as the ids from its top-level category down to it
TreePaths(categories, above) ==
    IF Len(categories) = 0 THEN {}
    ELSE LET own == Append(above, Head(categories).id_string)
         IN  {own} \cup TreePaths(Head(categories).sub_categories, own)
                   \cup TreePaths(Tail(categories), above)

\* the file name the claim gives for a filename policy
ClaimedFile(document) ==
    IF document.filename.policy = "ID" THEN <<document.id \o document.extension>>
    ELSE IF document.filename.policy = "Index" THEN <<"index" \o document.extension>>
    ELSE IF document.filename.policy = "Resource"
    THEN <<"rsc",
           (IF Len(document.id) >= 9 /\ SubSeq(document.id, 1, 9) = "resource:"
            THEN SubSeq(document.id, 10, Len(document.id)) ELSE document.id)
           \o document.extension>>
    ELSE <<document.filename.name \o document.extension>>

Dir(route) == SubSeq(route, 1, Len(route) - 1)

RECURSIVE WalkSegments(_, _)
\* follow the segments of a relative path from a directory: "." stays,
\* ".." leaves the directory, a name enters it
WalkSegments(at, segments) ==
    IF Len(segments) = 0 THEN at
    ELSE IF Head(segments) = "." THEN WalkSegments(at, Tail(segments))
    ELSE IF Head(segments) = ".."
         THEN WalkSegments(SubSeq(at, 1, Len(at) - 1), Tail(segments))
    ELSE WalkSegments(Append(at, Head(segments)), Tail(segments))

\* where a relative href leads from the page with the given route
Walk(from_route, href) == WalkSegments(Dir(from_route), Split(href, "/"))

HrefTo(target, from_page) == resolve_href(routes, LinkID(target), from_page)

\* C2: for any two documents P and Q of the route table of a successful
\* build, walking resolve_href(ByID(Q), P) from P's directory ends on Q's route.
C2_HrefRoundTrip ==
    build_result.kind = "Ok" =>
        \A P, Q \in DOMAIN routes :
            /\ HrefTo(Q, P).kind = "ok"
            /\ Walk(routes[P], HrefTo(Q, P).href) = routes[Q]

\* route a is a proper prefix of route b
ProperPrefix(a, b) == Len(a) < Len(b) /\ SubSeq(b, 1, Len(a)) = a

\* the round trip on the pairs where neither route is a proper prefix of the other
C2_RoundTripWithoutPrefix ==
    build_result.kind = "Ok" =>
        \A P, Q \in DOMAIN routes :
            (~ProperPrefix(routes[P], routes[Q]) /\ ~ProperPrefix(routes[Q], routes[P])) =>
                /\ HrefTo(Q, P).kind = "ok"
                /\ Walk(routes[P], HrefTo(Q, P).href) = routes[Q]

SameDirectory(P, Q) == Dir(routes[P]) = Dir(routes[Q])

\* C3 as stated: a link between two distinct documents of the same category
\* directory is "./" followed by the target's file name.
C3_SiblingDotSlash ==
    build_result.kind = "Ok" =>
        \A P, Q \in DOMAIN routes :
            (P # Q /\ SameDirectory(P, Q)) =>
                HrefTo(Q, P) = HrefOk("./" \o routes[Q][Len(routes[Q])])

\* C3 amended: a link between two distinct documents of the same directory
\* is the target's file name alone; "./" precedes the file name in the link
\* of a document to itself.
C3_SiblingFileName ==
    build_result.kind = "Ok" =>
        \A P, Q \in DOMAIN routes :
            /\ (P # Q /\ SameDirectory(P, Q)) =>
                  HrefTo(Q, P) = HrefOk(routes[Q][Len(routes[Q])])
            /\ HrefTo(P, P) = HrefOk("./" \o routes[P][Len(routes[P])])

\* rendering post p resolved the link to its sibling q under blog/tech
C3_Witness ==
    /\ build_result.kind = "Ok"
    /\ current_page = Some("p")
    /\ "q" \in DOMAIN routes
    /\ routes["p"] = <<"blog", "tech", "p.html">>
    /\ routes["q"] = <<"blog", "tech", "q.html">>
    /\ href_call = [link |-> LinkID("q"), from_page |-> "p",
                    result |-> HrefOk("q.html")]

\* ------------------------------------------------------------ style claims

RECURSIVE FirstOccurrences(_)
\* a sequence without the repetitions of earlier elements
FirstOccurrences(seq) ==
    IF Len(seq) = 0 THEN <<>>
    ELSE LET before == FirstOccurrences(SubSeq(seq, 1, Len(seq) - 1))
             last == seq[Len(seq)]
         IN  IF \E i \in DOMAIN before : before[i] = last THEN before
             ELSE Append(before, last)

RECURSIVE ArgsOf(_, _)
\* the arguments of the calls of one kind, in call order
ArgsOf(calls, kind) ==
    IF Len(calls) = 0 THEN <<>>
    ELSE (IF Head(calls).call = kind THEN <<Head(calls).arg>> ELSE <<>>)
         \o ArgsOf(Tail(calls), kind)

Registered == ArgsOf(css_calls, "register")
Imported == ArgsOf(css_calls, "import")

EndsWith(s, suffix) ==
    /\ Len(s) >= Len(suffix)
    /\ SubSeq(s, Len(s) - Len(suffix) + 1, Len(s)) = suffix

Contains(s, part) ==
    \E i \in 1..Len(s) :
        i + Len(part) - 1 <= Len(s) /\ SubSeq(s, i, i + Len(part) - 1) = part

RECURSIVE TrimLeft(_)
TrimLeft(s) == IF Len(s) > 0 /\ Head(s) = " " THEN TrimLeft(Tail(s)) ELSE s

RECURSIVE ParseBlocks(_, _)
\* the (scope, selector) of every rule block of a stylesheet, read from its
\* lines: "@media m {" opens a scope for the block that follows, "sel {"
\* opens a block
ParseBlocks(lines, scope) ==
    IF Len(lines) = 0 THEN <<>>
    ELSE LET line == TrimLeft(Head(lines))
         IN  IF StartsWith(line, "@media ") /\ EndsWith(line, " {")
             THEN ParseBlocks(Tail(lines), Some(SubSeq(line, 8, Len(line) - 2)))
             ELSE IF EndsWith(line, " {")
             THEN <<<<scope, SubSeq(line, 1, Len(line) - 2)>>>>
                  \o ParseBlocks(Tail(lines), None)
             ELSE ParseBlocks(Tail(lines), scope)

\* the (scope, selector) pairs of a sequence of generators
HeadersOf(generators) ==
    [i \in DOMAIN generators |->
        <<Generate(generators[i]).query, Generate(generators[i]).identifier>>]

Written == css_result.kind # "open"

\* C7: the registry holds each distinct generator once, at the position of
\* its first registration (so registering a present generator changes
\* nothing), and a completed write emits one rule per generator in that order.
C7_RegistryFirstSeen ==
    /\ rules = FirstOccurrences(Registered)
    /\ css_result.kind = "Ok" =>
          ParseBlocks(css_out, None) = HeadersOf(FirstOccurrences(Registered))

\* root, body and root again were registered; the stylesheet has the two
\* rules, root first
C7_Witness ==
    /\ css_result.kind = "Ok"
    /\ Registered = <<"root", "body", "root">>
    /\ rules = <<"root", "body">>
    /\ ParseBlocks(css_out, None) = <<<<None, ":root">>, <<None, "body">>>>

\* two distinct registered generators with the same (scope, selector)
ClashingPairs ==
    {pair \in Range(Registered) \X Range(Registered) :
        /\ pair[1] # pair[2]
        /\ Generate(pair[1]).query = Generate(pair[2]).query
        /\ Generate(pair[1]).identifier = Generate(pair[2]).identifier}

\* C8: write panics exactly when two distinct registered generators produce
\* the same (scope, selector), and the panic names the selector of such a
\* pair; one selector under two scopes is accepted.
C8_DuplicateRejected ==
    Written =>
        /\ css_result.kind = "Panic" <=> ClashingPairs # {}
        /\ css_result.kind = "Panic" =>
              \E pair \in ClashingPairs :
                  /\ Generate(pair[1]).identifier = css_result.identifier
                  /\ Generate(pair[1]).query = css_result.query

\* :root is written bare and under @media print, then the second bare :root
\* generator makes write panic
C8_Witness ==
    /\ css_result = WritePanic(None, ":root")
    /\ rules = <<"root", "root_print", "root_again">>
    /\ ParseBlocks(css_out, None) = <<<<None, ":root">>, <<Some("print"), ":root">>>>

\* C9 as stated: register calls no generator, and write calls every distinct
\* registered generator exactly once.
C9_EachInvokedOnce ==
    /\ ~Written => \A g \in Generators : invoked[g] = 0
    /\ Written => \A g \in Range(Registered) : invoked[g] = 1

\* the position in the registry of the first generator whose (scope,
\* selector) repeats an earlier one; 0 when there is none
FirstClash ==
    LET firsts == FirstOccurrences(Registered)
        clashing == {j \in DOMAIN firsts :
                        \E i \in 1..(j - 1) : HeadersOf(firsts)[i] = HeadersOf(firsts)[j]}
    IN  IF clashing = {} THEN 0
        ELSE CHOOSE j \in clashing : \A k \in clashing : j <= k

\* C9 amended: register calls no generator; write calls each distinct
\* registered generator at most once, however often it was registered, and
\* nothing else: every one exactly once when write completes, and when write
\* panics on a repeated (scope, selector) the generators up to the repeating
\* one once and the later ones not at all.
C9_InvokedAtMostOnce ==
    /\ ~Written => \A g \in Generators : invoked[g] = 0
    /\ Written =>
          /\ \A g \in Generators : invoked[g] <= 1
          /\ \A g \in Generators \ Range(Registered) : invoked[g] = 0
    /\ css_result.kind = "Ok" => \A g \in Range(Registered) : invoked[g] = 1
    /\ css_result.kind = "Panic" =>
          {g \in Generators : invoked[g] = 1}
            = {FirstOccurrences(Registered)[i] : i \in 1..FirstClash}

\* root was registered three times and body once; the completed write called
\* each of the two once
C9_Witness ==
    /\ css_result.kind = "Ok"
    /\ Registered = <<"root", "root", "body", "root">>
    /\ invoked["root"] = 1
    /\ invoked["body"] = 1

IsImportLine(line) == StartsWith(line, "@import ")

\* C10: write emits the import lines first, one per distinct import in the
\* order of the first import calls, then a blank line if and only if there is
\* an import, then the rules in the order of first registration (all of them
\* when write completes, the ones before the repeated rule when it panics).
C10_OutputOrder ==
    Written =>
        LET firsts == FirstOccurrences(Imported)
            k == Len(firsts)
        IN  /\ Len(css_out) >= k
            /\ \A i \in 1..k :
                  IsImportLine(css_out[i]) /\ Contains(css_out[i], firsts[i])
            /\ \A i \in (k + 1)..Len(css_out) : ~IsImportLine(css_out[i])
            /\ k > 0 => /\ Len(css_out) > k
                        /\ css_out[k + 1] = ""
                        /\ Len(css_out) > k + 1 => css_out[k + 2] # ""
            /\ (k = 0 /\ Len(css_out) > 0) => css_out[1] # ""
            /\ css_result.kind = "Ok" =>
                  ParseBlocks(css_out, None) = HeadersOf(FirstOccurrences(Registered))
            /\ css_result.kind = "Panic" =>
                  ParseBlocks(css_out, None)
                    = SubSeq(HeadersOf(FirstOccurrences(Registered)), 1, FirstClash - 1)

\* two import literals, the first imported again, and one rule
C10_Witness ==
    /\ css_result.kind = "Ok"
    /\ Imported = <<"theme.css", "url('fonts.css')", "theme.css">>
    /\ Registered = <<"body">>
    /\ Len(css_out) = 7
    /\ css_out[3] = ""
    /\ css_out[4] = "body {"

\* ------------------------------------------------------------ import lines

\* the import line of text t with the text in double quotes
QuotedImport(t) == "@import \"" \o t \o "\";"

\* the import line of text t with the text as it was passed
VerbatimImport(t) == "@import " \o t \o ";"

\* C11 as stated: for every text t passed to import, the written stylesheet
\* holds the line @import "t"; (t inside double quotes)
C11_ImportQuoted ==
    css_result.kind # "open" =>
        \A t \in Range(Imported) : \E i \in DOMAIN css_out : css_out[i] = QuotedImport(t)

\* C11 amended: for every text t passed to import, the written stylesheet
\* holds the line @import t; with t exactly as passed, no quotes added,
\* and no line of the stylesheet is the quoted form
C11_ImportVerbatim ==
    css_result.kind # "open" =>
        \A t \in Range(Imported) :
            /\ \E i \in DOMAIN css_out : css_out[i] = VerbatimImport(t)
            /\ \A i \in DOMAIN css_out : css_out[i] # QuotedImport(t)

\* a stylesheet written after import("url('fonts.css')") and import("theme.css")
C11_Witness ==
    /\ css_result.kind = "Ok"
    /\ Range(Imported) = ImportSources
    /\ css_out[1] \in {"@import url('fonts.css');", "@import theme.css;"}

\* ------------------------------------------------------------ attribute order

\* the text before the first occurrence of the character
UpTo(s, c) ==
    LET i == IndexIn(c, s)
    IN  IF i = 0 THEN s ELSE SubSeq(s, 1, i - 1)

\* the attribute names of the start tag at the head of the written text, in
\* the order they were written
WrittenAttributeNames ==
    LET parts == Split(UpTo(html_out, ">"), " ")
    IN  [i \in 1..(Len(parts) - 1) |-> UpTo(parts[i + 1], "=")]

RECURSIVE Ascending(_)
\* the names in ascending lexicographic order
Ascending(names) ==
    IF names = {} THEN <<>>
    ELSE LET least == CHOOSE a \in names :
                        \A b \in names \ {a} : StrCmp(a, b) = "Less"
         IN  <<least>> \o Ascending(names \ {least})

ReverseSeq(seq) == [i \in DOMAIN seq |-> seq[Len(seq) + 1 - i]]

ClaimedPriority == <<"id", "name", "class", "src", "for", "type", "href",
                     "value", "title", "alt", "role">>

\* the order the attributes are said to be written in: the priority names
\* that are present, in the order of the list, then the others ascending
ClaimedOrder(names) ==
    SelectSeq(ClaimedPriority, LAMBDA a : a \in names)
    \o Ascending(names \ Range(ClaimedPriority))

SerializedElement == html_result.kind = "Ok" /\ html_node.kind = "Element"

\* C12: the attributes of a serialized element are written in the order id,
\* name, class, src, for, type, href, value, title, alt, role (those present),
\* then all others in ascending lexicographic order, however they were set.
C12_AttributeOrder ==
    SerializedElement =>
        WrittenAttributeNames = ClaimedOrder(DOMAIN html_node.attributes)

\* what is written instead: the other attributes first, ascending, then the
\* priority names that are present in the reverse of the order of the list
C12_WrittenOrder ==
    SerializedElement =>
        WrittenAttributeNames =
            Ascending(DOMAIN html_node.attributes \ Range(ClaimedPriority))
            \o ReverseSeq(SelectSeq(ClaimedPriority,
                                    LAMBDA a : a \in DOMAIN html_node.attributes))

\* ---------------------------------------------------------------------------
\* plain text
\* ---------------------------------------------------------------------------

\* the five character references an HTML decoder turns back into characters
Entities == <<"&amp;", "&lt;", "&gt;", "&quot;", "&#x27;">>
EntityChars == <<"&", "<", ">", "\"", "'">>

RECURSIVE DecodeEntities(_)
\* an HTML decoder on the written text, left to right
DecodeEntities(s) ==
    IF Len(s) = 0 THEN ""
    ELSE IF \E i \in DOMAIN Entities : StartsWith(s, Entities[i])
    THEN LET i == CHOOSE k \in DOMAIN Entities : StartsWith(s, Entities[k])
         IN  EntityChars[i]
             \o DecodeEntities(SubSeq(s, Len(Entities[i]) + 1, Len(s)))
    ELSE Head(s) \o DecodeEntities(Tail(s))

SerializedPlaintext == html_result.kind = "Ok" /\ html_node.kind = "Plaintext"

\* C13: the written form of a plain text of the characters & < > " ' newline
\* and ordinary characters, decoded, is the text itself, in every format.
C13_DecodedIsText ==
    SerializedPlaintext /\ ~HasPart(html_node.text, "\r")
        => DecodeEntities(html_out) = html_node.text

\* what holds instead: Preformatted writes the text with CR LF made LF;
\* Indent(n) writes its lines joined by a newline and 4n spaces, without a
\* final line ending; a text of one line is written as it is in every format
C13_DecodedIsLines ==
    SerializedPlaintext =>
        LET normal == Replace(html_node.text, "\r\n", "\n")
        IN  /\ html_format.kind = "Preformatted"
                => DecodeEntities(html_out) = normal
            /\ html_format.kind = "Indent"
                => DecodeEntities(html_out) =
                       Join(Lines(normal), "\n" \o Spaces(html_format.indent * 4))
            /\ ~HasPart(html_node.text, "\n")
                => DecodeEntities(html_out) = html_node.text

C13_Witness ==
    /\ SerializedPlaintext
    /\ html_node.text = "&\n<"
    /\ html_format = HtmlIndent(1)
    /\ html_out = "&amp;\n    &lt;"

\* ---------------------------------------------------------------------------
\* inline aggregates
\* ---------------------------------------------------------------------------

IsAggregate(node) == node.kind \in {"Tuple", "Array", "Vec"}

\* the aggregate with its i-th member replaced
WithMember(node, i, member) == [node EXCEPT !.content[i] = member]

\* the nodes of Members that are not inline in the context
BlockMembers == {m \in Members : ~Html_is_inline(m, PageContext)}

\* C14: an aggregate answers is_inline with TRUE exactly when every member
\* answers TRUE in the same context (an empty list is inline), and an inline
\* aggregate with one member replaced by a node that is not inline is not
\* inline.
C14_InlineIffAllMembers ==
    IsAggregate(html_node) /\ Len(inline_result) = 1 =>
        /\ inline_result[1] =
              (\A i \in DOMAIN html_node.content :
                    Html_is_inline(html_node.content[i], PageContext))
        /\ inline_result[1] =>
              \A i \in DOMAIN html_node.content : \A m \in BlockMembers :
                    ~Html_is_inline(WithMember(html_node, i, m), PageContext)

C14_Witness ==
    /\ html_node = Aggregate("Tuple", <<TextLine, LinkAbout, TextLine>>)
    /\ document_titles = OneLineTitles
    /\ inline_result = Some(TRUE)
    /\ TextLines \in BlockMembers

\* ---------------------------------------------------------------------------
\* void elements
\* ---------------------------------------------------------------------------

\* the registry as it is listed, the document type declaration under the
\* name it is written with
ListedVoid == {"!doctype", "area", "base", "br", "col", "embed", "hr", "img",
               "input", "link", "meta", "source", "track", "wbr"}

IsElement == html_node.kind = "Element"

\* the number of times the character occurs in the text
Occurrences(s, c) == Cardinality({i \in 1..Len(s) : SubSeq(s, i, i) = c})

\* in every state: the tag is void exactly when its name, in lower case, is
\* listed; a void element has no children; written, it is its start tag
VoidElementState ==
    IsElement =>
        /\ html_node.tag.is_void = (to_ascii_lowercase(html_node.tag.name) \in ListedVoid)
        /\ html_node.tag.is_void => Len(html_node.content) = 0
        /\ html_node.tag.is_void /\ html_result.kind = "Ok" =>
              /\ StartsWith(html_out, "<" \o html_node.tag.name)
              /\ SubSeq(html_out, Len(html_out), Len(html_out)) = ">"
              /\ Occurrences(html_out, "<") = 1
              /\ Occurrences(html_out, ">") = 1
              /\ ~HasPart(html_out, "</")

\* in every step: content or content_opt on a void element ends in the panic
\* and adds nothing
VoidContentStep ==
    IsElement /\ html_node.tag.is_void /\ (ElementContent \/ ElementContentOpt) =>
        /\ html_result'.kind = "Panic"
        /\ html_result'.message =
              "Attempt to set content for void element " \o html_node.tag.name
        /\ html_node' = html_node

\* C15: whatever builder calls are made on an element whose tag is in the
\* void registry (names matched without regard to case), an attempt to add
\* content aborts, so a void element never has children and is written as one
\* start tag with no closing tag.
C15_VoidElements == [] VoidElementState /\ [][VoidContentStep]_vars

C15_Witness ==
    /\ IsElement
    /\ html_node.tag.name = "!DOCTYPE"
    /\ DOMAIN html_node.attributes = {"id"}
    /\ html_result = HtmlPanic("Attempt to set content for void element !DOCTYPE")

\* a void element written with its attributes
C15_WrittenWitness ==
    /\ IsElement
    /\ html_node.tag.name = "BR"
    /\ html_result.kind = "Ok"
    /\ html_out = "<BR class=\"a&quot;b\">"

\* ---------------------------------------------------------------------------
\* rendering a document
\* ---------------------------------------------------------------------------

\* the documents the builder still holds and the one main holds
HeldDocuments == Range(documents) \cup Range(yielded)

NoRepeat(seq) == \A i, j \in DOMAIN seq : i # j => seq[i] # seq[j]

\* C16: the render closure of a document is invoked at most once in a run:
\* Document::build takes the slot, and a second build of the same document is
\* the "double-render" panic and no second call of the closure.
C16_RenderedOnce ==
    /\ NoRepeat(render_log)
    /\ \A i \in DOMAIN render_log :
          \A d \in HeldDocuments : d.id # render_log[i]
    /\ \A d \in HeldDocuments :
          LET first == Document_build(d)
              second == Document_build(first.document)
          IN  /\ first.kind = "Ok" /\ first.invoked
              /\ first.document.render = None
              /\ second.kind = "Panic" /\ ~second.invoked
              /\ second.document = first.document

C16_Witness ==
    /\ Len(render_log) = 3
    /\ Len(yielded) = 1
    /\ Len(documents) > 0
    /\ render_result = RenderOk

\* ---------------------------------------------------------------------------
\* failed route construction
\* ---------------------------------------------------------------------------

RouteErrors == {"duplicate document ID", "invalid document category",
                "duplicate route"}

\* C17: when the route loop of Website::build fails (an id twice, a route
\* twice, a category that is not in the category map) build returns the
\* error, there is no builder, no document is yielded or rendered and no rule
\* is registered.
C17_NoRenderAfterRouteError ==
    build_result.kind = "Err" =>
        /\ build_result.error \in RouteErrors
        /\ documents = <<>>
        /\ yielded = None
        /\ next_history = <<>>
        /\ current_page = None
        /\ render_log = <<>>
        /\ render_result = RenderNone
        /\ rules = <<>>
        /\ \A g \in DOMAIN invoked : invoked[g] = 0

C17_Witness ==
    /\ build_result.kind = "Err"
    /\ build_result.error = "duplicate route"
    /\ Len(Website_documents(website)) > 2

\* ---------------------------------------------------------------------------
\* the builder's iteration
\* ---------------------------------------------------------------------------

\* the calls of next so far that returned a document
YieldedCalls == Len(next_history) - ExhaustedCalls

\* C18: the calls of WebsiteBuilder::next return the documents of the render
\* list one by one in the order of the list, each with the current page set
\* to its id, and None from the call after the last document on.
C18_NextInListOrder ==
    build_result.kind = "Ok" =>
        /\ \A i \in DOMAIN next_history :
              next_history[i] = IF i <= Len(DocumentList)
                                THEN Some(DocumentList[i].id) ELSE None
        /\ documents = SubSeq(DocumentList, YieldedCalls + 1, Len(DocumentList))
        /\ current_page = IF YieldedCalls = 0 THEN None
                          ELSE Some(DocumentList[YieldedCalls].id)
        /\ Len(yielded) = 1 =>
              /\ yielded[1] = DocumentList[YieldedCalls]
              /\ current_page = Some(yielded[1].id)

C18_Witness ==
    /\ build_result.kind = "Ok"
    /\ Len(DocumentList) >= 4
    /\ YieldedCalls = Len(DocumentList)
    /\ ExhaustedCalls = 2
    /\ current_page = Some(DocumentList[Len(DocumentList)].id)

\* ---------------------------------------------------------------------------
\* nesting depth
\* ---------------------------------------------------------------------------

RECURSIVE Levels(_)
\* the number of levels of a list of category trees
Levels(categories) ==
    IF Len(categories) = 0 THEN 0
    ELSE LET below == {Levels(categories[i].sub_categories) :
                          i \in DOMAIN categories}
         IN  1 + CHOOSE n \in below : \A m \in below : m <= n

\* C19: build panics in validate, with no route computed, when a category of
\* the third level has sub-categories; a tree of at most three levels passes
\* validate.
C19_NestingLimit ==
    build_result.kind # "none" =>
        /\ Levels(website.categories) > 3 =>
              /\ build_result.kind = "Panic"
              /\ build_result.error = "nests beyond level 3"
              /\ routes = EmptyMap
              /\ documents = <<>>
              /\ next_history = <<>>
        /\ Levels(website.categories) <= 3 =>
              build_result.error # "nests beyond level 3"

C19_Witness ==
    /\ Levels(website.categories) = 4
    /\ build_result.kind = "Panic"
    /\ build_result.error = "nests beyond level 3"

\* a tree of three levels that passed validate
C19_ThreeLevelsWitness ==
    /\ Levels(website.categories) = 3
    /\ build_result.kind = "Ok"

\* ---------------------------------------------------------------------------
\* failing link resolution
\* ---------------------------------------------------------------------------

HrefCalled == href_call # NoCall /\ href_call.link.kind = "ID"
TitleCalled == title_call # NoTitleCall /\ title_call.link.kind = "ID"

\* the documents of the list with the id, and whether one of them has a title
DocumentsWithId(id) ==
    {DocumentList[i] : i \in {j \in DOMAIN DocumentList : DocumentList[j].id = id}}
Titled(id) == \E d \in DocumentsWithId(id) : HasTitle(d)

\* C20: for a link by id, resolve_href panics with "invalid page reference"
\* when the source page or the target is not in the route table;
\* resolve_link_title returns the title of a target that has one, panics
\* with the "document without title" message for a routed target without
\* one, and with the "unknown ID" message for a target that is not routed.
C20_FailingResolution ==
    /\ HrefCalled =>
          LET unrouted == href_call.from_page \notin DOMAIN routes
                          \/ href_call.link.id \notin DOMAIN routes
          IN  /\ unrouted =>
                    /\ href_call.result.kind = "panic"
                    /\ StartsWith(href_call.result.message, "invalid page reference")
              /\ ~unrouted => href_call.result.kind = "ok"
    /\ TitleCalled =>
          LET id == title_call.link.id
          IN  /\ id \in DOMAIN routes /\ Titled(id) =>
                    title_call.result = TitleOk(TitleOf(id))
              /\ id \in DOMAIN routes /\ ~Titled(id) =>
                    /\ title_call.result.kind = "panic"
                    /\ HasPart(title_call.result.message, "document without title")
              /\ id \notin DOMAIN routes =>
                    /\ title_call.result.kind = "panic"
                    /\ HasPart(title_call.result.message, "unknown ID")

C20_Witness ==
    /\ TitleCalled
    /\ title_call.link.id = "stylesheet"
    /\ "stylesheet" \in DOMAIN routes
    /\ title_call.result.kind = "panic"
    /\ HasPart(title_call.result.message, "document without title")

\* ---------------------------------------------------------------------------
\* custom links
\* ---------------------------------------------------------------------------

CustomHrefCalled == href_call # NoCall /\ href_call.link.kind = "Custom"
CustomTitleCalled == title_call # NoTitleCall /\ title_call.link.kind = "Custom"

\* C21: for a Custom link resolve_href returns the destination and
\* resolve_link_title the title, both as they were given, whatever the source
\* page and the route table are; neither call fails.
C21_CustomLiteral ==
    /\ CustomHrefCalled =>
          href_call.result = HrefOk(href_call.link.destination)
    /\ CustomTitleCalled =>
          title_call.result = TitleOk(title_call.link.link_title)

C21_Witness ==
    /\ CustomHrefCalled
    /\ href_call.from_page = "nowhere"
    /\ "nowhere" \notin DOMAIN routes
    /\ href_call.link.destination = "https://example.org/"
    /\ href_call.result = HrefOk("https://example.org/")

\* ---------------------------------------------------------------------------
\* children of a block element
\* ---------------------------------------------------------------------------

\* an element with two or more children, written in Indent format and not
\* laid out inline
IndentedBlockElement ==
    /\ SerializedElement
    /\ html_format.kind = "Indent"
    /\ ~html_node.tag.is_void
    /\ ~html_node.preformatted_content
    /\ ~Html_is_inline(html_node, PageContext)
    /\ Len(html_node.content) >= 2

ChildInline(i) == Html_is_inline(html_node.content[i], PageContext)
ChildBuilt(i) ==
    Html_build(html_node.content[i], PageContext, HtmlIndent(html_format.indent + 1))
ChildBreak == "\n" \o Spaces((html_format.indent + 1) * 4)
CloseTag == "\n" \o Spaces(html_format.indent * 4) \o "</" \o html_node.tag.name \o ">"

\* C22: a block element with two or more children, written in Indent(depth)
\* format, has a newline and (depth+1)*4 spaces before each child that is not
\* inline, the children after the first included.
C22_BreakBeforeBlockChild ==
    IndentedBlockElement =>
        html_out = StartTag(html_node) \o ">"
                   \o Join([i \in DOMAIN html_node.content |->
                               (IF i = 1 \/ ~ChildInline(i) THEN ChildBreak ELSE "")
                               \o ChildBuilt(i)], "")
                   \o CloseTag

\* what is written: one break after the start tag, then the children one
\* after the other with nothing between them
C22_BreakBeforeFirstChild ==
    IndentedBlockElement =>
        html_out = StartTag(html_node) \o ">" \o ChildBreak
                   \o Join([i \in DOMAIN html_node.content |-> ChildBuilt(i)], "")
                   \o CloseTag

\* ---------------------------------------------------------------------------
\* members of an aggregate
\* ---------------------------------------------------------------------------

SerializedAggregate == html_result.kind = "Ok" /\ IsAggregate(html_node)

MemberBuilt(i) == Html_build(html_node.content[i], PageContext, html_format)

RECURSIVE Between(_, _)
\* the texts in order with the separator between each two of them
Between(texts, sep) ==
    IF Len(texts) = 0 THEN ""
    ELSE IF Len(texts) = 1 THEN texts[1]
    ELSE texts[1] \o sep \o Between(Tail(texts), sep)

\* C23: an aggregate of N members that is not inline, written in
\* Indent(depth) format, is its members in order with a newline and depth*4
\* spaces between each two of them and nothing after the last; an inline
\* aggregate, and any aggregate in Preformatted format, is its members with
\* nothing between them.
C23_SeparatorsBetweenMembers ==
    SerializedAggregate =>
        LET built == [i \in DOMAIN html_node.content |-> MemberBuilt(i)]
            block == ~Html_is_inline(html_node, PageContext)
        IN  html_out =
                IF html_format.kind = "Indent" /\ block
                THEN Between(built, "\n" \o Spaces(html_format.indent * 4))
                ELSE Between(built, "")

C23_Witness ==
    /\ SerializedAggregate
    /\ html_node = Aggregate("Tuple", <<TextLine, TextLines, Paragraph>>)
    /\ html_format = HtmlIndent(1)
    /\ html_out = "a\n    a\n    b\n    <p>\n        a\n    </p>"

\* ---------------------------------------------------------------------------
\* preformatted elements
\* ---------------------------------------------------------------------------

RECURSIVE Flat(_)
\* a node written with nothing added by the serializer: texts escaped and
\* otherwise as they are, members and children one after the other
Flat(node) ==
    LET parts == [i \in DOMAIN node.content |-> Flat(node.content[i])]
    IN  CASE node.kind = "Plaintext" -> EscapeText(node.text)
          [] node.kind = "Raw" -> node.text
          [] node.kind \in {"Tuple", "Array", "Vec"} -> Between(parts, "")
          [] node.kind = "Element" ->
                IF node.tag.is_void THEN StartTag(node) \o ">"
                ELSE StartTag(node) \o ">" \o Between(parts, "")
                     \o "</" \o node.tag.name \o ">"
          [] OTHER -> Html_build(node, PageContext, HtmlPreformatted)

SerializedPreformatted ==
    SerializedElement /\ html_node.preformatted_content /\ ~html_node.tag.is_void

\* C24: an element flagged preformatted, written in any format, has all its
\* descendants written in Preformatted format: nothing in it is written in an
\* Indent format and no newline or indentation is added inside it.
C24_PreformattedDescendants ==
    SerializedPreformatted =>
        /\ html_out = Flat(html_node)
        /\ html_out = Html_build(html_node, PageContext, HtmlPreformatted)

C24_Witness ==
    /\ SerializedPreformatted
    /\ html_node.tag.name = "pre"
    /\ html_node.content = <<Blockquote, Paragraph>>
    /\ html_format = HtmlIndent(1)
    /\ html_out = "<pre><blockquote>a\nb</blockquote><p>a</p></pre>"

\* ---------------------------------------------------------------------------
\* setting an attribute twice
\* ---------------------------------------------------------------------------

\* a step in which an attribute the element already has gets another value
AttributeReplaced ==
    /\ IsElement
    /\ \E n \in DOMAIN html_node.attributes :
          /\ n \in DOMAIN html_node'.attributes
          /\ html_node'.attributes[n] # html_node.attributes[n]

\* C25: setting an attribute name that is already set on the element is
\* fatal: the value set earlier is never replaced in a step that goes on.
C25_DuplicateAttributeFatal ==
    [][AttributeReplaced => html_result'.kind = "Panic"]_vars

\* ------------------------------------------------------------ the complete run

\* The rules main registers before the build, in the order of its css! calls.
DriverGenerators == <<"root", "root_print", "body">>
DriverImport == "url('fonts.css')"

\* main: css.import(...) on the new registry
MainImport ==
    /\ build_result.kind = "none"
    /\ css_result.kind = "open"
    /\ css_calls = <<>>
    /\ imports' = IndexSetInsert(imports, DriverImport)
    /\ css_calls' = Append(css_calls, [call |-> "import", arg |-> DriverImport])
    /\ UNCHANGED <<rules, invoked, css_out, css_result>>
    /\ UNCHANGED web_vars
    /\ UNCHANGED html_vars

\* main: the next css! call, which registers its rule
MainRegister ==
    /\ build_result.kind = "none"
    /\ css_result.kind = "open"
    /\ Len(css_calls) >= 1
    /\ Len(css_calls) <= Len(DriverGenerators)
    /\ LET generator == DriverGenerators[Len(css_calls)]
       IN  /\ rules' = IndexSetInsert(rules, generator)
           /\ css_calls' = Append(css_calls, [call |-> "register", arg |-> generator])
    /\ UNCHANGED <<imports, invoked, css_out, css_result>>
    /\ UNCHANGED web_vars
    /\ UNCHANGED html_vars

\* main: website.build(css).unwrap(), after the registrations
MainBuild ==
    /\ Len(css_calls) = 1 + Len(DriverGenerators)
    /\ Build

\* main: the head of `while let Some(..) = builder.next()`; the loop is left
\* at the first None
MainLoopNext ==
    /\ ExhaustedCalls = 0
    /\ css_result.kind = "open"
    /\ BuilderNext

\* main: the body of the loop
MainRender ==
    /\ css_result.kind = "open"
    /\ Render

\* main: builder.into_stylesheet().write(&mut css_out).unwrap(), after the
\* loop; into_stylesheet consumes the builder
MainWrite ==
    /\ build_result.kind = "Ok"
    /\ ExhaustedCalls = 1
    /\ CssWrite

MainNext ==
    \/ MainImport
    \/ MainRegister
    \/ MainBuild
    \/ MainLoopNext
    \/ MainRender
    \/ MainWrite

MainSpec == LinkInit /\ [][MainNext]_vars

\* the registry has been taken for writing
StylesheetTaken == css_result.kind # "open"

\* the ids of a list of documents
DocumentIds(docs) == [i \in DOMAIN docs |-> docs[i].id]

\* what write emits for the driver's rules followed by the rules of a page
CompleteStylesheet ==
    CSSBuilder_write(<<DriverImport>>, DriverGenerators \o PageGenerators,
                     [g \in Generators \cup Range(PageGenerators) |-> 0])

\* when the registry has been written, every document has been rendered
\* and the stylesheet is the driver's rules and then the pages' rules
WrittenAfterLastRender ==
    StylesheetTaken =>
        /\ documents = <<>>
        /\ yielded = None
        /\ render_result.kind # "Panic"
        /\ render_log = DocumentIds(DocumentList)
        /\ rules = DriverGenerators \o PageGenerators
        /\ css_result = WriteOk
        /\ css_out = CompleteStylesheet.out
        /\ \A g \in DOMAIN invoked :
              invoked[g] = IF g \in Range(rules) THEN 1 ELSE 0

\* a step renders at most one document, the yielded one, and after the
\* registry is taken nothing is rendered, registered or written
OneAfterAnother ==
    /\ Len(render_log') <= Len(render_log) + 1
    /\ render_log' # render_log =>
          /\ Len(yielded) = 1
          /\ render_log' = Append(render_log, yielded[1].id)
          /\ yielded' = None
    /\ StylesheetTaken =>
          UNCHANGED <<render_log, rules, imports, css_out, invoked, css_result>>

\* C26: in a complete run the documents are rendered one after another, the
\* registry is written once, after the last document, and the stylesheet
\* holds the driver's rules followed by the rules registered while rendering
C26_WrittenOnceAfterRendering ==
    []WrittenAfterLastRender /\ [][OneAfterAnother]_vars

C26_Witness ==
    /\ css_result = WriteOk
    /\ Len(render_log) >= 4
    /\ rules = <<"root", "root_print", "body", "navigation_menu">>

\* ------------------------------------------------------------ yielded documents and routes

\* the ids next has yielded so far, in the order of the calls
YieldedIds ==
    LET some == SelectSeq(next_history, LAMBDA r : Len(r) = 1)
    IN  [i \in DOMAIN some |-> some[i][1]]

\* the ids of the documents the route loop of build ran over
RoutedIds == DocumentIds(DocumentList)

\* C27: after a successful build the ids next yields are, in order, the ids
\* the routes were computed over, each yielded document has a route, and
\* the loop of main never fails with "Unknown route".
C27_YieldedAreRouted ==
    build_result.kind = "Ok" =>
        /\ Len(YieldedIds) <= Len(RoutedIds)
        /\ YieldedIds = SubSeq(RoutedIds, 1, Len(YieldedIds))
        /\ ExhaustedCalls >= 1 => YieldedIds = RoutedIds
        /\ \A i \in DOMAIN YieldedIds : YieldedIds[i] \in DOMAIN routes
        /\ Len(yielded) = 1 => yielded[1].id \in DOMAIN routes
        /\ render_result.kind = "Panic" =>
              SubSeq(render_result.message, 1, 13) # "Unknown route"

C27_Witness ==
    /\ build_result.kind = "Ok"
    /\ ExhaustedCalls >= 1
    /\ Len(YieldedIds) >= 5
    /\ render_log = YieldedIds
    /\ \E i \in DOMAIN website.posts : website.posts[i].id \in Range(YieldedIds)

\* ------------------------------------------------------------ navigation links

\* the navigation links with no routed document or no title
DanglingNavigationLinks ==
    {id \in Range(NavigationLinks(website)) :
        id \notin DOMAIN routes \/ id \notin DOMAIN document_titles}

\* a render failed while resolving a link
LinkResolutionFailed ==
    /\ render_result.kind = "Panic"
    /\ SubSeq(render_result.message, 1, 13) # "Unknown route"
    /\ render_result.message # "double-render"

\* C28: after a successful build every link of the navigation refers to a
\* routed document with a title, so rendering the navigation never fails in
\* link resolution.
C28_NavigationLinksResolve ==
    build_result.kind = "Ok" =>
        /\ DanglingNavigationLinks = {}
        /\ ~LinkResolutionFailed

\* ------------------------------------------------------------ link nodes

\* The sites link nodes are built on: the sites of LinkWebsites without posts.
LinkTextSites == {w \in LinkWebsites : w.posts = <<>>}

\* the targets of the links: pages, the stylesheet, the resource, no document
LinkTargets == {"home", "blog", "stylesheet", "resource:x", "nowhere"}

\* html_link(link, None) and html_link_content(link, None, html_text("a"))
LinkNodes ==
    {LinkText(l, None, c) :
        l \in {LinkID(t) : t \in LinkTargets}
              \cup {LinkCustom("Example", "https://example.org/")},
        c \in NoneOrOne({TextLine})}

LinkTextInit ==
    /\ website \in LinkTextSites
    /\ InitWeb
    /\ InitCss
    /\ html_node \in LinkNodes
    /\ html_format = NoFormat
    /\ html_out = ""
    /\ html_result = HtmlOpen
    /\ inline_result = None

\* the render of the current page builds the link node
LinkTextBuild ==
    /\ build_result.kind = "Ok"
    /\ Len(yielded) = 1
    /\ Len(current_page) = 1
    /\ BuildNode

LinkTextNext == Build \/ BuilderNext \/ Render \/ LinkTextBuild

LinkTextSpec == LinkTextInit /\ [][LinkTextNext]_vars

\* the link node has been built, or its build has failed
LinkTextBuilt == html_result.kind # "open" /\ html_node.kind = "LinkText"

\* the link is to a document with a route and no title
UntitledTarget ==
    /\ html_node.link.kind = "ID"
    /\ html_node.link.id \in DOMAIN routes
    /\ html_node.link.id \notin DOMAIN document_titles

\* the link is to no document
UnroutedTarget ==
    /\ html_node.link.kind = "ID"
    /\ html_node.link.id \notin DOMAIN routes

\* C29: building a link node resolves the title and the href of its link
\* whether or not it has explicit content: a link to a routed document
\* without a title fails with the "document without title" panic, and the
\* explicit content is written only when both resolve.
C29_LinkTextResolvesTitle ==
    LinkTextBuilt =>
        /\ UntitledTarget =>
              html_result = HtmlPanic(
                  "Attempt to resolve link to document without title for "
                  \o html_node.link.id)
        /\ UnroutedTarget =>
              html_result = HtmlPanic(
                  "Attempt to resolve link to unknown ID for "
                  \o html_node.link.id)
        /\ ~UntitledTarget /\ ~UnroutedTarget =>
              /\ html_result = HtmlBuilt
              /\ Len(html_node.content) = 1 => EndsWith(html_out, "\">a</a>")

C29_Witness ==
    /\ LinkTextBuilt
    /\ Len(html_node.content) = 1
    /\ html_node.link.id \in {"stylesheet", "resource:x"}
    /\ "resource:x" \in DOMAIN routes
    /\ html_result.kind = "Panic"
    /\ html_result.message =
          "Attempt to resolve link to document without title for "
          \o html_node.link.id

\* ------------------------------------------------------------ post lists

\* map.entry(key).or_insert_with(HashSet::new).insert(value)
ChildrenInsert(map, key, value) ==
    [k \in DOMAIN map \cup {key} |->
        (IF k \in DOMAIN map THEN map[k] ELSE {})
        \cup (IF k = key THEN {value} ELSE {})]

RECURSIVE load_category_children(_, _, _)
RECURSIVE load_children_of(_, _, _)
\* `for sub_category in &category.sub_categories { load_category_children(
\* map, sub_category, parent) }`
load_children_of(map, sub_categories, parent) ==
    IF Len(sub_categories) = 0 THEN map
    ELSE load_children_of(load_category_children(map, Head(sub_categories), parent),
                          Tail(sub_categories), parent)

\* load_category_children of Website::documents: the category under its own
\* id and under its parent's, its sub-categories under its id, and again
\* under its parent's when it has one
load_category_children(map, category, parent) ==
    LET own == ChildrenInsert(map, category.id_string, category.id_string)
        in_parent == IF Len(parent) = 1
                     THEN ChildrenInsert(own, parent[1], category.id_string)
                     ELSE own
        below == load_children_of(in_parent, category.sub_categories,
                                  Some(category.id_string))
    IN  IF Len(parent) = 1
        THEN load_children_of(below, category.sub_categories, parent)
        ELSE below

\* category_children after the loop over the top-level categories
category_children(w) == load_children_of(EmptyMap, w.categories, None)

\* category_children.get("blog").unwrap().contains(&category.id_string): the
\* page of the category gets a post list
HasPostList(w, category) == category.id_string \in category_children(w)["blog"]

RECURSIVE UnderBlog(_, _)
\* for the categories in the order of iter_recurse: the category is "blog"
\* or below a category "blog" in the tree
UnderBlog(categories, below_blog) ==
    IF Len(categories) = 0 THEN <<>>
    ELSE LET here == below_blog \/ Head(categories).id_string = "blog"
         IN  <<here>> \o UnderBlog(Head(categories).sub_categories, here)
             \o UnderBlog(Tail(categories), below_blog)

\* documents has run to its end and build has succeeded
Collected == build_result.kind = "Ok"

\* the site has a listed category and no category "blog"
NoBlog ==
    /\ ~validate_panics(website)
    /\ \E c \in Range(iter_recurse_all(website.categories)) : ~c.unlisted
    /\ \A c \in Range(iter_recurse_all(website.categories)) : c.id_string # "blog"

\* a site without "blog" and with a listed category aborts in build with no
\* route computed
AbortsWithoutBlog ==
    NoBlog /\ build_result.kind # "none" =>
        /\ build_result.kind = "Panic"
        /\ routes = EmptyMap
        /\ documents = <<>>

\* C30: in a site that builds, the page of a listed category gets a post
\* list exactly when the category is "blog" or below "blog" in the tree, and
\* a site with a listed category and no "blog" aborts in build before any
\* route.
C30_PostListUnderBlog ==
    /\ AbortsWithoutBlog
    /\ Collected =>
          \A i \in DOMAIN iter_recurse_all(website.categories) :
              LET category == iter_recurse_all(website.categories)[i]
              IN  ~category.unlisted =>
                      (HasPostList(website, category)
                          <=> UnderBlog(website.categories, FALSE)[i])

\* no two categories of the tree have the same id
UniqueCategoryIds ==
    NoRepeat([i \in DOMAIN iter_recurse_all(website.categories) |->
                 iter_recurse_all(website.categories)[i].id_string])

\* what the lookup decides: the id of the category is "blog" or the id of a
\* category below a category "blog"; with unique ids that is the category's
\* place in the tree
C30_PostListByCategoryId ==
    /\ AbortsWithoutBlog
    /\ build_result.kind \in {"Ok", "Err"} =>
          /\ DOMAIN category_children(website) = CategoryChildrenKeys(website)
          /\ \A i \in DOMAIN iter_recurse_all(website.categories) :
                LET all == iter_recurse_all(website.categories)
                    flags == UnderBlog(website.categories, FALSE)
                IN  HasPostList(website, all[i])
                        <=> \E j \in DOMAIN all :
                               flags[j] /\ all[j].id_string = all[i].id_string
          /\ UniqueCategoryIds =>
                \A i \in DOMAIN iter_recurse_all(website.categories) :
                    HasPostList(website, iter_recurse_all(website.categories)[i])
                        <=> UnderBlog(website.categories, FALSE)[i]

====
